---- MODULE Spec2Model ----
(***************************************************************************)
(* A model of the zero-radio library cache, station service, scorer,       *)
(* genre similarity and search guard.  Strings are sequences of one-       *)
(* character strings, so that case folding, trimming, splitting and the    *)
(* id hash are computed character by character as the code computes them.  *)
(***************************************************************************)
EXTENDS Integers, Sequences, FiniteSets, TLC

(* ------------------------------------------------------------------ *)
(* Strings                                                              *)
(* ------------------------------------------------------------------ *)

\* The printable ASCII characters in code-unit order, from 32 to 126 (the
\* double quote, the backslash and the backtick, which no modelled string
\* uses, by name).
Ascii ==
  <<
     " ", "!", "dquote", "#", "$", "%", "&", "'", "(", ")", "*", "+", ",", "-", ".", "/",
     "0", "1", "2", "3", "4", "5", "6", "7", "8", "9", ":", ";", "<", "=", ">", "?",
     "@", "A", "B", "C", "D", "E", "F", "G", "H", "I", "J", "K", "L", "M", "N", "O",
     "P", "Q", "R", "S", "T", "U", "V", "W", "X", "Y", "Z", "[", "bslash", "]", "^", "_",
     "btick", "a", "b", "c", "d", "e", "f", "g", "h", "i", "j", "k", "l", "m", "n", "o",
     "p", "q", "r", "s", "t", "u", "v", "w", "x", "y", "z", "{", "|", "}", "~"
  >>

\* String.prototype.charCodeAt for one character.
CodeUnits == [c \in {Ascii[i] : i \in 1..Len(Ascii)} |-> 31 + CHOOSE i \in 1..Len(Ascii) : Ascii[i] = c]
CharCode(c) == CodeUnits[c]

\* String.prototype.toLowerCase for one character.
LowerChar(c) ==
  LET k == CharCode(c) IN IF k >= 65 /\ k <= 90 THEN Ascii[k + 32 - 31] ELSE c

\* String.prototype.toLowerCase.
toLowerCase(s) == [i \in 1..Len(s) |-> LowerChar(s[i])]

\* The TLA+ string spelled by a sequence of characters.
RECURSIVE Str(_)
Str(s) == IF s = <<>> THEN "" ELSE Head(s) \o Str(Tail(s))

\* The characters of a string literal.
Chars(str) == [i \in 1..Len(str) |-> SubSeq(str, i, i)]

\* A 32-bit integer as two halves: n = High(n) * 65536 + Low(n), with
\* 0 <= Low(n) < 65536.
High(n) == n \div 65536
Low(n) == n % 65536

\* ToInt32 of hi * 65536 + lo, for 0 <= lo < 65536.
ToInt32(hi, lo) ==
  LET h == hi % 65536 IN (IF h >= 32768 THEN h - 65536 ELSE h) * 65536 + lo

\* hash << 5.
ShiftLeft5(hash) ==
  LET lo == Low(hash) * 32
  IN  ToInt32(High(hash) * 32 + lo \div 65536, lo % 65536)

\* (A step that leaves out the subtraction of hash.)
HashStep_ShiftOnly(hash, char) ==
  LET lo == Low(ShiftLeft5(hash)) + char
  IN  ToInt32(High(ShiftLeft5(hash)) + lo \div 65536, lo % 65536)

\* hash = ((hash << 5) - hash) + char; hash = hash & hash.  The sum, which
\* can leave the 32-bit range, is kept in halves.
HashStep(hash, char) ==
  LET shifted == ShiftLeft5(hash)
      lo == Low(shifted) - Low(hash) + char
      hi == High(shifted) - High(hash) + lo \div 65536
  IN  ToInt32(hi, lo % 65536)

\* The hash after the characters from the i-th on (the test on next has it
\* evaluated before the next step).
RECURSIVE HashFrom(_, _, _)
HashFrom(hash, s, i) ==
  IF i > Len(s) THEN hash
  ELSE LET next == HashStep(hash, CharCode(s[i]))
       IN  IF next = 0 /\ i = Len(s) THEN 0 ELSE HashFrom(next, s, i + 1)

\* MusicCacheService.generateId: the numeric value of the id.
generateId(filePath) == HashFrom(0, filePath, 1)


\* The decimal digits of a natural number.
RECURSIVE NatDigits(_)
NatDigits(n) ==
  IF n < 10 THEN <<Ascii[n + 17]>> ELSE NatDigits(n \div 10) \o <<Ascii[(n % 10) + 17]>>

\* Number.prototype.toString for a 32-bit integer.
toString(n) ==
  IF n >= 0 THEN NatDigits(n)
  ELSE LET last == (10 - (n % 10)) % 10
           rest == -((n + last) \div 10)
       IN  <<"-">> \o (IF rest = 0 THEN <<>> ELSE NatDigits(rest)) \o <<Ascii[last + 17]>>

\* The order of JavaScript strings (by code unit, a proper prefix first).
RECURSIVE StrLess(_, _)
StrLess(a, b) ==
  IF b = <<>> THEN FALSE
  ELSE IF a = <<>> THEN TRUE
  ELSE IF Head(a) = Head(b) THEN StrLess(Tail(a), Tail(b))
  ELSE CharCode(Head(a)) < CharCode(Head(b))

IsSpace(c) == c = " "

\* String.prototype.trim.
RECURSIVE TrimLeft(_)
TrimLeft(s) == IF s /= <<>> /\ IsSpace(Head(s)) THEN TrimLeft(Tail(s)) ELSE s
RECURSIVE TrimRight(_)
TrimRight(s) ==
  IF s /= <<>> /\ IsSpace(s[Len(s)]) THEN TrimRight(SubSeq(s, 1, Len(s) - 1)) ELSE s
Trim(s) == TrimRight(TrimLeft(s))

\* String.prototype.split for a one-character separator: the parts, in order.
RECURSIVE SplitFrom(_, _, _)
SplitFrom(s, sep, part) ==
  IF s = <<>> THEN <<part>>
  ELSE IF Head(s) = sep THEN <<part>> \o SplitFrom(Tail(s), sep, <<>>)
  ELSE SplitFrom(Tail(s), sep, Append(part, Head(s)))
Split(s, sep) == SplitFrom(s, sep, <<>>)

\* String.prototype.includes.
Includes(s, t) == \E k \in 0..(Len(s) - Len(t)) : SubSeq(s, k + 1, k + Len(t)) = t

\* String.prototype.endsWith.
EndsWith(s, suffix) ==
  /\ Len(suffix) <= Len(s)
  /\ SubSeq(s, Len(s) - Len(suffix) + 1, Len(s)) = suffix

\* Array.prototype.join.
RECURSIVE Join(_, _)
Join(list, sep) ==
  IF list = <<>> THEN <<>>
  ELSE IF Len(list) = 1 THEN list[1]
  ELSE list[1] \o sep \o Join(Tail(list), sep)

\* Array.prototype.filter on a sequence, for a predicate Keep(_).
RECURSIVE SelectSeqBy(_, _)
SelectSeqBy(seq, keep) ==
  IF seq = <<>> THEN <<>>
  ELSE (IF Head(seq) \in keep THEN <<Head(seq)>> ELSE <<>>) \o SelectSeqBy(Tail(seq), keep)

Range(f) == {f[x] : x \in DOMAIN f}

(* ------------------------------------------------------------------ *)
(* The directory tree and the scanner                                   *)
(* ------------------------------------------------------------------ *)

AUDIO_EXTENSIONS ==
  << <<".","m","p","3">>, <<".","m","4","a">>, <<".","o","g","g">>,
     <<".","w","a","v">>, <<".","f","l","a","c">>, <<".","a","a","c">> >>

\* The file names of the modelled directory trees: two names with the same
\* id hash, one with an upper-case extension, one that is no audio file.
NameAa  == <<"A","a",".","m","p","3">>
NameBB  == <<"B","B",".","m","p","3">>
NameC   == <<"c",".","M","P","3">>
NameTxt == <<"n",".","t","x","t">>

\* The places a file can be at, in traversal order: the root directory's
\* files, then those of its subdirectory.
AllPaths ==
  << [dir |-> "root", name |-> NameAa], [dir |-> "root", name |-> NameBB],
     [dir |-> "root", name |-> NameTxt], [dir |-> "sub", name |-> NameAa],
     [dir |-> "sub", name |-> NameC] >>

IsAudioName(name) ==
  \E k \in 1..Len(AUDIO_EXTENSIONS) : EndsWith(toLowerCase(name), AUDIO_EXTENSIONS[k])

\* scanDirectoryForAudioFiles: the names of the audio files of the tree, in
\* traversal order; a subdirectory whose traversal fails contributes nothing.
scanDirectoryForAudioFiles(tree, failedDirs) ==
  LET found == {p \in Range(AllPaths) :
                  p \in tree /\ p.dir \notin failedDirs /\ IsAudioName(p.name)}
      kept  == SelectSeqBy(AllPaths, found)
  IN  [k \in 1..Len(kept) |-> kept[k].name]

(* ------------------------------------------------------------------ *)
(* Metadata extraction and library entries                              *)
(* ------------------------------------------------------------------ *)

UnknownTitle  == <<"U","n","k","n","o","w","n"," ","T","i","t","l","e">>
UnknownArtist == <<"U","n","k","n","o","w","n"," ","A","r","t","i","s","t">>
UnknownAlbum  == <<"U","n","k","n","o","w","n"," ","A","l","b","u","m">>

\* What extractMetadata can return for a file of the small trees; an absent
\* field is the empty sequence (the code's || default treats both alike).
TagsFull ==
  [title |-> <<"T">>, artist |-> <<"A","b">>, album |-> <<"L">>,
   genre |-> << <<"R","o","c","k">>, <<"P","o","p">> >>, year |-> 1995,
   mood |-> <<"H","a","p","p","y">>]
TagsNone ==
  [title |-> <<>>, artist |-> <<>>, album |-> <<>>, genre |-> <<>>, year |-> 0,
   mood |-> <<>>]
\* The tags of a file are those its content holds.
TagsOf(name) == IF name = NameBB THEN TagsNone ELSE TagsFull

OrDefault(value, default) == IF value = <<>> THEN default ELSE value

\* The MusicLibraryEntry updateCache builds for a new file.
MakeEntry(name, metadata) ==
  [id       |-> generateId(name),
   filePath |-> name,
   title    |-> OrDefault(metadata.title, UnknownTitle),
   artist   |-> OrDefault(metadata.artist, UnknownArtist),
   album    |-> OrDefault(metadata.album, UnknownAlbum),
   genre    |-> Join(metadata.genre, <<",", " ">>),
   year     |-> metadata.year,
   mood     |-> metadata.mood]

\* An object store keyed by id is a function from the stored ids to the rows.
EmptyStore == << >>
StoreRows(store) == Range(store)

\* IDBObjectStore.put: the row replaces any row of the same key.
Put(store, row) ==
  [k \in DOMAIN store \cup {row.id} |-> IF k = row.id THEN row ELSE store[k]]

\* IDBObjectStore.delete, for a set of keys.
DeleteKeys(store, ids) == [k \in DOMAIN store \ ids |-> store[k]]

\* storeEntries: one put per entry, in order; of the entries with one id the
\* last stays.
storeEntries(store, entries) ==
  LET ids == {entries[i].id : i \in DOMAIN entries}
      last(id) == CHOOSE i \in DOMAIN entries :
                    /\ entries[i].id = id
                    /\ \A j \in DOMAIN entries : entries[j].id = id => j <= i
  IN  [id \in DOMAIN store \cup ids |->
         IF id \in ids THEN entries[last(id)] ELSE store[id]]

\* deleteEntries: one delete per id.
deleteEntries(store, ids) == DeleteKeys(store, ids)

\* storeAlbumArt: the art row shares the id of the music entry.
storeAlbumArt(store, name) == Put(store, [id |-> generateId(name), filePath |-> name])

(* ------------------------------------------------------------------ *)
(* Numbers: IEEE-754 doubles                                            *)
(* ------------------------------------------------------------------ *)

\* A non-negative double is m * 2^e, its 53-bit significand m held as four
\* 15-bit limbs, least significant first; zero has m = 0 and e = 0.
Zero     == [m |-> <<0, 0, 0, 0>>, e |-> 0]
One      == [m |-> <<0, 0, 0, 128>>, e |-> -52]
Two      == [m |-> <<0, 0, 0, 128>>, e |-> -51]
Half     == [m |-> <<0, 0, 0, 128>>, e |-> -53]
Point1   == [m |-> <<6554, 13107, 26214, 204>>, e |-> -56]
Point3   == [m |-> <<13107, 26214, 19660, 153>>, e |-> -54]
Point7   == [m |-> <<26214, 19660, 6553, 179>>, e |-> -53]
Point8   == [m |-> <<6554, 13107, 26214, 204>>, e |-> -53]
Point4   == [m |-> <<6554, 13107, 26214, 204>>, e |-> -54]
Point6   == [m |-> <<13107, 26214, 19660, 153>>, e |-> -53]
Point9   == [m |-> <<19661, 6553, 13107, 230>>, e |-> -53]

\* Natural numbers of any size: limbs of 15 bits, least significant first,
\* without leading zero limbs (zero is the empty sequence).
Limb == 2^15

RECURSIVE BNorm(_)
BNorm(a) ==
  IF a /= <<>> /\ a[Len(a)] = 0 THEN BNorm(SubSeq(a, 1, Len(a) - 1)) ELSE a

RECURSIVE BAddC(_, _, _)
BAddC(a, b, carry) ==
  IF a = <<>> /\ b = <<>>
  THEN IF carry = 0 THEN <<>> ELSE <<carry>>
  ELSE LET x == IF a = <<>> THEN 0 ELSE Head(a)
           y == IF b = <<>> THEN 0 ELSE Head(b)
           s == x + y + carry
       IN <<s % Limb>> \o BAddC(IF a = <<>> THEN a ELSE Tail(a),
                                IF b = <<>> THEN b ELSE Tail(b), s \div Limb)

BAdd(a, b) == BAddC(a, b, 0)

\* a - b for a >= b
RECURSIVE BSubC(_, _, _)
BSubC(a, b, borrow) ==
  IF a = <<>> THEN <<>>
  ELSE LET y == IF b = <<>> THEN 0 ELSE Head(b)
           d == Head(a) - y - borrow
       IN <<d % Limb>> \o BSubC(Tail(a), IF b = <<>> THEN b ELSE Tail(b),
                                IF d < 0 THEN 1 ELSE 0)

BSub(a, b) == BNorm(BSubC(a, b, 0))

\* -1, 0 or 1 as a < b, a = b, a > b
RECURSIVE BCmpFrom(_, _, _)
BCmpFrom(a, b, k) ==
  IF k = 0 THEN 0
  ELSE IF a[k] < b[k] THEN -1
  ELSE IF a[k] > b[k] THEN 1
  ELSE BCmpFrom(a, b, k - 1)

BCmp(a, b) ==
  IF Len(a) < Len(b) THEN -1
  ELSE IF Len(a) > Len(b) THEN 1
  ELSE BCmpFrom(a, b, Len(a))

\* a * k for 0 <= k < 2^15
RECURSIVE BMulSmallC(_, _, _)
BMulSmallC(a, k, carry) ==
  IF a = <<>>
  THEN IF carry = 0 THEN <<>> ELSE <<carry>>
  ELSE LET p == Head(a) * k + carry
       IN <<p % Limb>> \o BMulSmallC(Tail(a), k, p \div Limb)

BMulSmall(a, k) == BNorm(BMulSmallC(a, k, 0))

BShlLimbs(a, n) == IF a = <<>> THEN a ELSE [i \in 1..n |-> 0] \o a

RECURSIVE BMul(_, _)
BMul(a, b) ==
  IF b = <<>> THEN <<>>
  ELSE BAdd(BMulSmall(a, Head(b)), BShlLimbs(BMul(a, Tail(b)), 1))

\* a * 2^n
BShl(a, n) == BShlLimbs(BMulSmall(a, 2^(n % 15)), n \div 15)

\* floor(a / 2^n)
BShr(a, n) ==
  LET q == n \div 15
      r == n % 15
      rest == IF q >= Len(a) THEN <<>> ELSE SubSeq(a, q + 1, Len(a))
      limb(i) == IF i <= Len(rest) THEN rest[i] ELSE 0
  IN BNorm([i \in 1..Len(rest) |->
              (limb(i) \div 2^r) + (limb(i + 1) % 2^r) * 2^(15 - r)])

\* a mod 2^n
BLow(a, n) ==
  LET q == n \div 15
      r == n % 15
  IN IF q >= Len(a) THEN a
     ELSE BNorm(SubSeq(a, 1, q) \o <<a[q + 1] % 2^r>>)

RECURSIVE SmallBitLen(_)
SmallBitLen(n) == IF n = 0 THEN 0 ELSE 1 + SmallBitLen(n \div 2)

BitLen(a) == IF a = <<>> THEN 0 ELSE 15 * (Len(a) - 1) + SmallBitLen(a[Len(a)])

BIsOdd(a) == a /= <<>> /\ a[1] % 2 = 1

RECURSIVE BFromNat(_)
BFromNat(n) == IF n = 0 THEN <<>> ELSE <<n % Limb>> \o BFromNat(n \div Limb)

\* The significand of a double as a natural number, and back.
Sig(x) == BNorm(x.m)
Limbs4(a) == [i \in 1..4 |-> IF i <= Len(a) THEN a[i] ELSE 0]

IsZero(x) == x.m = <<0, 0, 0, 0>>

\* Round to nearest, ties to even: the double nearest to a * 2^e, where
\* sticky says that the exact value lies strictly above a * 2^e (by less
\* than 2^e).
Round(a, e, sticky) ==
  LET len == BitLen(a)
      d == len - 53
      q == BShr(a, d)
      r == BLow(a, d)
      c == BCmp(r, BShl(<<1>>, d - 1))
      up == c > 0 \/ (c = 0 /\ (sticky \/ BIsOdd(q)))
      q2 == IF up THEN BAdd(q, <<1>>) ELSE q
  IN IF a = <<>> THEN Zero
     ELSE IF len <= 53 THEN [m |-> Limbs4(BShl(a, 53 - len)), e |-> e - (53 - len)]
     ELSE IF BitLen(q2) = 54 THEN [m |-> Limbs4(BShr(q2, 1)), e |-> e + d + 1]
     ELSE [m |-> Limbs4(q2), e |-> e + d]

\* Number(n) for a natural number n
FromInt(n) == Round(BFromNat(n), 0, FALSE)

\* x + y
FAdd(x, y) ==
  LET lo == IF x.e <= y.e THEN x ELSE y
      hi == IF x.e <= y.e THEN y ELSE x
      diff == hi.e - lo.e
  IN IF IsZero(x) THEN y
     ELSE IF IsZero(y) THEN x
     ELSE IF diff > 64 THEN hi
     ELSE Round(BAdd(BShl(Sig(hi), diff), Sig(lo)), lo.e, FALSE)

\* x * y
FMul(x, y) ==
  IF IsZero(x) \/ IsZero(y) THEN Zero
  ELSE Round(BMul(Sig(x), Sig(y)), x.e + y.e, FALSE)

\* Long division, limb by limb. The divisor d has four limbs, the top one
\* at least 2^14, and rem < d * 2^15; the quotient digit is estimated from
\* the leading limbs and the estimate, which is never too small, is lowered
\* until it fits.
RECURSIVE FitDigit(_, _, _)
FitDigit(rem, d, digit) ==
  IF digit = 0 THEN [digit |-> 0, rem |-> rem]
  ELSE LET product == BMulSmall(d, digit)
       IN IF BCmp(product, rem) > 0 THEN FitDigit(rem, d, digit - 1)
          ELSE [digit |-> digit, rem |-> BSub(rem, product)]

DivStep(rem, d) ==
  LET top == (IF Len(rem) >= 5 THEN rem[5] * Limb ELSE 0)
               + (IF Len(rem) >= 4 THEN rem[4] ELSE 0)
  IN FitDigit(rem, d, IF top \div d[4] < Limb THEN top \div d[4] ELSE Limb - 1)

\* The quotient and the remainder of n * 2^(15 * k) by d, for n < 2 * d.
RECURSIVE DivLimbs(_, _, _)
DivLimbs(n, d, k) ==
  IF k = 0
  THEN LET step == DivStep(n, d)
       IN [quot |-> BNorm(<<step.digit>>), rem |-> step.rem]
  ELSE LET prev == DivLimbs(n, d, k - 1)
           step == DivStep(BShlLimbs(prev.rem, 1), d)
       IN IF prev.rem = <<>>
          THEN [quot |-> BShlLimbs(prev.quot, 1), rem |-> <<>>]
          ELSE [quot |-> <<step.digit>> \o prev.quot, rem |-> step.rem]

\* x / y for y > 0
FDiv(x, y) ==
  IF IsZero(x) THEN Zero
  ELSE LET qr == DivLimbs(BShl(Sig(x), 7), BShl(Sig(y), 7), 4)
       IN Round(qr.quot, x.e - y.e - 60, qr.rem /= <<>>)

\* x < y
FLess(x, y) ==
  IF IsZero(y) THEN FALSE
  ELSE IF IsZero(x) THEN TRUE
  ELSE IF x.e /= y.e THEN x.e < y.e
  ELSE BCmp(Sig(x), Sig(y)) < 0

\* Math.min(x, y)
FMin(x, y) == IF FLess(y, x) THEN y ELSE x

(* ------------------------------------------------------------------ *)
(* The radio station service                                            *)
(* ------------------------------------------------------------------ *)

\* RadioStationService.generateId: the hash behind the station_ prefix.
stationGenerateId(name) == HashFrom(0, name, 1)

\* RadioStationService.createStation: the stored row.
NewStation(station, now) ==
  [id          |-> stationGenerateId(station.name),
   name        |-> station.name,
   description |-> station.description,
   criteria    |-> station.criteria,
   createdAt   |-> now,
   updatedAt   |-> now]

\* RadioStationService.storeStation.
storeStation(stations, station) == Put(stations, station)

createStation(stations, station, now) == storeStation(stations, NewStation(station, now))

\* RadioStationService.getStationById: the row, or Null.
Null == [id |-> "null"]

\* (A lookup that finds a row under every id.)
getStationById_Any(stations, id) ==
  IF id \in DOMAIN stations THEN stations[id]
  ELSE [id |-> id, name |-> <<>>, description |-> <<>>, criteria |-> <<>>,
        createdAt |-> 0, updatedAt |-> 0]

getStationById(stations, id) == IF id \in DOMAIN stations THEN stations[id] ELSE Null

\* The row updateStation stores: the name falls back to the stored one when
\* the patch gives none (or the empty string), the criteria and the
\* description when the patch does not mention them; every other field of
\* the patch is dropped.
UpdatedStation(existing, updates, now) ==
  [existing EXCEPT
     !.name = IF "name" \in DOMAIN updates /\ updates.name /= <<>>
              THEN updates.name ELSE existing.name,
     !.description = IF "description" \in DOMAIN updates
                     THEN updates.description ELSE existing.description,
     !.criteria = IF "criteria" \in DOMAIN updates
                  THEN updates.criteria ELSE existing.criteria,
     !.updatedAt = now]

\* RadioStationService.updateStation: the store afterwards and the outcome.
updateStation(stations, id, updates, now) ==
  LET existing == getStationById(stations, id) IN
  IF existing = Null
  THEN [stations |-> stations, outcome |-> "Station not found"]
  ELSE [stations |-> storeStation(stations, UpdatedStation(existing, updates, now)),
        outcome  |-> "ok"]

(* ------------------------------------------------------------------ *)
(* Station auto-discovery                                               *)
(* ------------------------------------------------------------------ *)

MIN_LIBRARY_SIZE == 20
MIN_GROUP_SIZE == 20

\* IDBObjectStore.getAll: the rows in the order of their keys, which are
\* the ids as strings.
RowsInKeyOrder(rows) ==
  LET keyed == {<<toString(r.id), r>> : r \in rows}
      ranked == {<<Cardinality({q \in keyed : StrLess(q[1], p[1])}), p[2]>> : p \in keyed}
  IN  [i \in 1..Cardinality(rows) |-> (CHOOSE p \in ranked : p[1] = i - 1)[2]]
getAllCachedEntries(library) == RowsInKeyOrder(StoreRows(library))
getAllStations(stations) == RowsInKeyOrder(StoreRows(stations))

Decade(year) == IF year > 0 THEN (year \div 10) * 10 ELSE 0

\* track.genre.split(',').map(g => g.trim())
GenreParts(genre) == LET parts == Split(genre, ",") IN [k \in 1..Len(parts) |-> Trim(parts[k])]

\* ... .filter(g => g.length > 0)
GenreTokens(genre) == SelectSeq(GenreParts(genre), LAMBDA g : g /= <<>>)

GroupingAttributes == <<"genre", "mood", "decade", "genre+decade">>

\* The keys of the groups of one attribute that a track is pushed to, in the
\* order of the pushes (a genre named twice by a track is pushed twice).
GroupKeys(attribute, track) ==
  LET genres    == GenreTokens(track.genre)
      decadeKey == toString(Decade(track.year))
  IN  CASE attribute = "genre" -> [k \in 1..Len(genres) |-> toLowerCase(genres[k])]
        [] attribute = "mood" ->
             IF track.mood /= <<>> THEN <<toLowerCase(track.mood)>> ELSE <<>>
        [] attribute = "decade" -> <<decadeKey>>
        [] attribute = "genre+decade" ->
             [k \in 1..Len(genres) |-> toLowerCase(genres[k]) \o <<"|">> \o decadeKey]

\* The keys pushed for an attribute: <<t, k, key>> for the k-th key of the
\* t-th track.
Pushed(attribute, tracks) ==
  UNION { LET keys == GroupKeys(attribute, tracks[t])
          IN  {<<t, k, keys[k]>> : k \in 1..Len(keys)} : t \in 1..Len(tracks) }

\* The groups of one attribute, in Map insertion order (the order in which
\* the keys are first pushed), with their sizes.
Groups(attribute, tracks) ==
  LET pushed == Pushed(attribute, tracks)
      Before(p, q) == p[1] < q[1] \/ (p[1] = q[1] /\ p[2] < q[2])
      firsts == {p \in pushed : \A q \in pushed : q[3] = p[3] => q = p \/ Before(p, q)}
      ranked == {<<Cardinality({q \in firsts : Before(q, p)}), p[3],
                   Cardinality({q \in pushed : q[3] = p[3]})>> : p \in firsts}
  IN  [i \in 1..Cardinality(firsts) |->
         LET g == CHOOSE g \in ranked : g[1] = i - 1
         IN  [attribute |-> attribute, key |-> g[2], count |-> g[3]]]

\* The groups large enough for a station, in the order the pass visits them.
RECURSIVE LargeGroupsOf(_, _)
LargeGroupsOf(attributes, tracks) ==
  IF attributes = <<>> THEN <<>>
  ELSE SelectSeq(Groups(Head(attributes), tracks), LAMBDA g : g.count > MIN_GROUP_SIZE)
         \o LargeGroupsOf(Tail(attributes), tracks)
LargeGroups(tracks) == LargeGroupsOf(GroupingAttributes, tracks)

\* const [a, b] = groupKey.split('|'): the first two parts, absent ones empty.
PartOf(groupKey, k) ==
  LET parts == Split(groupKey, "|") IN IF k <= Len(parts) THEN parts[k] ELSE <<>>

\* createCriteriaFromGroup.
createCriteriaFromGroup(attribute, groupKey) ==
  CASE attribute \in {"genre", "mood", "decade"} ->
         << [attribute |-> attribute, value |-> groupKey, weight |-> One] >>
    [] attribute = "genre+decade" ->
         IF PartOf(groupKey, 1) /= <<>> /\ PartOf(groupKey, 2) /= <<>>
         THEN << [attribute |-> "genre", value |-> PartOf(groupKey, 1), weight |-> Point7],
                 [attribute |-> "decade", value |-> PartOf(groupKey, 2), weight |-> Point7] >>
         ELSE <<>>

\* The station name the pass generates for a group.
StationName(attribute, groupKey) ==
  CASE attribute = "genre" -> <<"G","e","n","r","e",":"," ">> \o groupKey
    [] attribute = "mood" -> <<"M","o","o","d",":"," ">> \o groupKey
    [] attribute = "decade" -> <<"D","e","c","a","d","e",":"," ">> \o groupKey \o <<"'","s">>
    [] attribute = "genre+decade" ->
         PartOf(groupKey, 1) \o <<" ","(">> \o PartOf(groupKey, 2) \o <<"'","s",")">>

\* (A name check that finds every name new.)
IsNewName_Always(existingStations, name) == TRUE

\* Whether the pass creates a station for a group: no station that existed
\* when the pass began has the generated name.
IsNewName(existingStations, name) ==
  \A k \in 1..Len(existingStations) : existingStations[k].name /= name

\* createRadioStationFromTracks, for each large group with a new name, in order.
RECURSIVE CreateStationsFor(_, _, _, _)
CreateStationsFor(groups, existingStations, stations, now) ==
  IF groups = <<>> THEN stations
  ELSE LET g    == Head(groups)
           name == StationName(g.attribute, g.key)
       IN  CreateStationsFor(Tail(groups), existingStations,
             IF IsNewName(existingStations, name)
             THEN createStation(stations,
                    [name |-> name, description |-> name,
                     criteria |-> createCriteriaFromGroup(g.attribute, g.key)], now)
             ELSE stations,
             now)

\* The groups for which the pass created a station, in creation order.
CreatedGroups(tracks, existingStations) ==
  SelectSeq(LargeGroups(tracks),
            LAMBDA g : IsNewName(existingStations, StationName(g.attribute, g.key)))

\* The genres assignImagesToStation has images for, with the number of images.
GenreImageCount ==
  [g \in {"blues", "classic rock", "country", "dance", "disco", "electronic", "grunge",
          "hip-hop", "jazz", "metal", "new age", "oldies", "rap"} |->
     CASE g \in {"disco", "oldies", "rap"} -> 1
       [] g \in {"blues", "electronic", "grunge", "hip-hop", "new age"} -> 2
       [] g = "dance" -> 3
       [] g = "jazz" -> 4
       [] g \in {"classic rock", "country"} -> 5
       [] g = "metal" -> 6]

\* station.criteria.find(c => c.attribute === 'genre'): its index, or 0.
FindGenreCriterion(criteria) ==
  IF \E k \in 1..Len(criteria) : criteria[k].attribute = "genre"
  THEN CHOOSE k \in 1..Len(criteria) :
         /\ criteria[k].attribute = "genre"
         /\ \A j \in 1..(k - 1) : criteria[j].attribute /= "genre"
  ELSE 0

\* The image paths already assigned: those of the stored stations that are
\* auto-generated, not the all-music station, and have an image path.  The
\* rows createStation and updateStation store carry none of these fields.
AssignedImages(stations) ==
  {row.imagePath : row \in
     {r \in StoreRows(stations) :
        /\ "isAutoGenerated" \in DOMAIN r /\ r.isAutoGenerated
        /\ ~("isAllMusic" \in DOMAIN r /\ r.isAllMusic)
        /\ "imagePath" \in DOMAIN r}}

\* assignImagesToStation: a station with a genre criterion whose genre has
\* an unassigned image is updated with the first such image.
assignImagesToStation(stations, station, now) ==
  LET k == FindGenreCriterion(station.criteria) IN
  IF k = 0 THEN stations
  ELSE LET genre == Str(toLowerCase(station.criteria[k].value)) IN
       IF genre \notin DOMAIN GenreImageCount THEN stations
       ELSE LET free == {n \in 1..GenreImageCount[genre] :
                           [genre |-> genre, n |-> n] \notin AssignedImages(stations)}
            IN  IF free = {} THEN stations
                ELSE updateStation(stations, station.id,
                       [imagePath |-> [genre |-> genre,
                                       n |-> CHOOSE n \in free : \A o \in free : n <= o]],
                       now).stations

\* createdStations.sort((a, b) => a[1] - b[1]): a stable sort by group size.
RECURSIVE InsertByCount(_, _)
InsertByCount(sorted, g) ==
  IF sorted = <<>> THEN <<g>>
  ELSE IF g.count < Head(sorted).count THEN <<g>> \o sorted
  ELSE <<Head(sorted)>> \o InsertByCount(Tail(sorted), g)
RECURSIVE SortByCount(_)
SortByCount(groups) ==
  IF groups = <<>> THEN <<>>
  ELSE InsertByCount(SortByCount(SubSeq(groups, 1, Len(groups) - 1)), groups[Len(groups)])

RECURSIVE AssignImagesFor(_, _, _, _)
AssignImagesFor(groups, stations, created, later) ==
  IF groups = <<>> THEN stations
  ELSE LET g == Head(groups)
           station == NewStation([name |-> StationName(g.attribute, g.key),
                                  description |-> StationName(g.attribute, g.key),
                                  criteria |-> createCriteriaFromGroup(g.attribute, g.key)],
                                 created)
       IN  AssignImagesFor(Tail(groups), assignImagesToStation(stations, station, later),
                           created, later)

\* scanForRadioStations up to the sort: the station store after the creation
\* loop, and the groups a station was created for (createdStations).
scanForRadioStations(library, stations, now) ==
  LET allTracks == getAllCachedEntries(library) IN
  IF Len(allTracks) < MIN_LIBRARY_SIZE THEN [stations |-> stations, created |-> <<>>]
  ELSE LET existingStations == getAllStations(stations)
           large == LargeGroups(allTracks)
       IN  [stations |-> CreateStationsFor(large, existingStations, stations, now),
            created  |-> CreatedGroups(allTracks, existingStations)]

\* The rest of scanForRadioStations: the created stations, sorted by group
\* size, get their images.
assignImages(stations, createdStations, created, later) ==
  AssignImagesFor(SortByCount(createdStations), stations, created, later)

(* ------------------------------------------------------------------ *)
(* Track scoring and criteria derivation                                *)
(* ------------------------------------------------------------------ *)

\* RadioStationService.deleteStation.
deleteStation(stations, id) == DeleteKeys(stations, {id} \cap DOMAIN stations)

\* parseInt: the integer a string starts with, after leading white space
\* and a sign, as a one-element tuple; NaN, the empty tuple, when no digit
\* is there.
NaN == <<>>
Digits == <<"0", "1", "2", "3", "4", "5", "6", "7", "8", "9">>
IsDigit(c) == \E d \in 1..10 : Digits[d] = c
DigitValue(c) == (CHOOSE d \in 1..10 : Digits[d] = c) - 1

RECURSIVE ParseDigits(_, _)
ParseDigits(s, n) ==
  IF s /= <<>> /\ IsDigit(Head(s)) THEN ParseDigits(Tail(s), 10 * n + DigitValue(Head(s)))
  ELSE n

parseInt(string) ==
  LET s == TrimLeft(string)
      signed == s /= <<>> /\ Head(s) \in {"+", "-"}
      body == IF signed THEN Tail(s) ELSE s
  IN IF body = <<>> \/ ~IsDigit(Head(body)) THEN NaN
     ELSE IF signed /\ Head(s) = "-" THEN <<0 - ParseDigits(body, 0)>>
     ELSE <<ParseDigits(body, 0)>>

\* (A match score whose partial scores are not capped.)
matchString_Uncapped(trackValue, criterionValue) ==
  LET trackLower == toLowerCase(trackValue)
      criterionLower == toLowerCase(criterionValue)
  IN IF trackValue = <<>> \/ criterionValue = <<>> THEN Zero
     ELSE IF trackLower = criterionLower THEN One
     ELSE IF Includes(trackLower, criterionLower)
       THEN FDiv(FromInt(Len(criterionLower)), FromInt(Len(trackLower)))
     ELSE IF Includes(criterionLower, trackLower)
       THEN FDiv(FromInt(Len(trackLower)), FromInt(Len(criterionLower)))
     ELSE Zero

\* RadioStationService.matchString
matchString(trackValue, criterionValue) ==
  LET trackLower == toLowerCase(trackValue)
      criterionLower == toLowerCase(criterionValue)
  IN IF trackValue = <<>> \/ criterionValue = <<>> THEN Zero
     ELSE IF trackLower = criterionLower THEN One
     ELSE IF Includes(trackLower, criterionLower)
       THEN FMin(Point8, FDiv(FromInt(Len(criterionLower)), FromInt(Len(trackLower))))
     ELSE IF Includes(criterionLower, trackLower)
       THEN FMin(Half, FDiv(FromInt(Len(trackLower)), FromInt(Len(criterionLower))))
     ELSE Zero

\* maxGenreMatch: the largest of the match scores of the track's genres.
MaxGenreMatch(trackGenres, value) ==
  LET matches == {matchString(trackGenres[k], value) : k \in 1..Len(trackGenres)}
  IN CHOOSE match \in matches \cup {Zero} :
       \A other \in matches : ~FLess(match, other)

\* RadioStationService.calculateAttributeMatch
calculateAttributeMatch(track, criterion) ==
  CASE criterion.attribute = "artist" -> matchString(track.artist, criterion.value)
    [] criterion.attribute = "album" -> matchString(track.album, criterion.value)
    [] criterion.attribute = "genre" ->
         MaxGenreMatch(GenreParts(track.genre), criterion.value)
    [] criterion.attribute = "mood" -> matchString(track.mood, criterion.value)
    [] criterion.attribute = "decade" ->
         IF <<(track.year \div 10) * 10>> = parseInt(criterion.value) THEN One ELSE Zero
    [] OTHER -> Zero

\* totalWeight of normalizeWeights: the weights added up in list order.
RECURSIVE TotalWeight(_, _)
TotalWeight(criteria, totalWeight) ==
  IF criteria = <<>> THEN totalWeight
  ELSE TotalWeight(Tail(criteria), FAdd(totalWeight, Head(criteria).weight))

\* (A weight map that adds up the weights of the criteria of an attribute.)
RECURSIVE SetWeights_Summing(_, _)
SetWeights_Summing(criteria, weightMap) ==
  IF criteria = <<>> THEN weightMap
  ELSE LET attr == Head(criteria).attribute
           old == IF attr \in DOMAIN weightMap THEN weightMap[attr] ELSE Zero
       IN SetWeights_Summing(Tail(criteria),
            [a \in DOMAIN weightMap \cup {attr} |->
               IF a = attr THEN FAdd(old, Head(criteria).weight) ELSE weightMap[a]])

\* The first loop of normalizeWeights: weightMap.set for each criterion in
\* turn, a later criterion of an attribute replacing the earlier entry.
RECURSIVE SetWeights(_, _)
SetWeights(criteria, weightMap) ==
  IF criteria = <<>> THEN weightMap
  ELSE LET attr == Head(criteria).attribute
       IN SetWeights(Tail(criteria),
            [a \in DOMAIN weightMap \cup {attr} |->
               IF a = attr THEN Head(criteria).weight ELSE weightMap[a]])

\* (Weights used as they are stored.)
normalizeWeights_Stored(criteria) == SetWeights(criteria, << >>)

\* RadioStationService.normalizeWeights
normalizeWeights(criteria) ==
  LET weightMap == SetWeights(criteria, << >>)
      totalWeight == TotalWeight(criteria, Zero)
  IN IF FLess(Zero, totalWeight)
     THEN [attr \in DOMAIN weightMap |-> FDiv(weightMap[attr], totalWeight)]
     ELSE weightMap

\* The loop of calculateTrackScore from criterion k on.
RECURSIVE WeightedSum(_, _, _, _, _)
WeightedSum(track, criteria, criterionWeights, k, weightedSum) ==
  IF k > Len(criteria) THEN weightedSum
  ELSE LET criterion == criteria[k]
           attributeWeight == criterionWeights[criterion.attribute]
       IN IF IsZero(attributeWeight)
          THEN WeightedSum(track, criteria, criterionWeights, k + 1, weightedSum)
          ELSE WeightedSum(track, criteria, criterionWeights, k + 1,
                 FAdd(weightedSum,
                      FMul(calculateAttributeMatch(track, criterion), attributeWeight)))

\* RadioStationService.calculateTrackScore
calculateTrackScore(track, criteria) ==
  WeightedSum(track, criteria, normalizeWeights(criteria), 1, Zero)

\* The attributeValues map of calculateAverageCriteria: the keys in
\* insertion order (the order in which they are first counted), each with
\* its count.
CountKeys(keys) ==
  LET firsts == {i \in 1..Len(keys) : \A j \in 1..(i - 1) : keys[j] /= keys[i]}
  IN  [k \in 1..Cardinality(firsts) |->
         LET i == CHOOSE i \in firsts : Cardinality({j \in firsts : j < i}) = k - 1
         IN  [key |-> keys[i],
              count |-> Cardinality({j \in 1..Len(keys) : keys[j] = keys[i]})]]

Key(attribute, value) == attribute \o <<":">> \o value

\* The keys one track adds, in the order of the code.
TrackKeys(track) ==
  (IF track.artist /= <<>> THEN <<Key(<<"a","r","t","i","s","t">>, track.artist)>> ELSE <<>>)
  \o (IF track.album /= <<>> THEN <<Key(<<"a","l","b","u","m">>, track.album)>> ELSE <<>>)
  \o (IF track.genre /= <<>>
      THEN [k \in 1..Len(GenreParts(track.genre)) |->
              Key(<<"g","e","n","r","e">>, GenreParts(track.genre)[k])]
      ELSE <<>>)
  \o (IF track.mood /= <<>> THEN <<Key(<<"m","o","o","d">>, track.mood)>> ELSE <<>>)
  \o (IF track.year /= 0
      THEN <<Key(<<"d","e","c","a","d","e">>, toString((track.year \div 10) * 10))>>
      ELSE <<>>)

RECURSIVE AllTrackKeys(_)
AllTrackKeys(tracks) ==
  IF tracks = <<>> THEN <<>> ELSE TrackKeys(Head(tracks)) \o AllTrackKeys(Tail(tracks))

\* (A key taken apart at its first colon only.)
KeyParts_First(key) ==
  LET at == CHOOSE i \in 1..Len(key) : key[i] = ":" /\ \A j \in 1..(i - 1) : key[j] /= ":"
  IN <<SubSeq(key, 1, at - 1), SubSeq(key, at + 1, Len(key))>>

\* const [attribute, value] = key.split(':')
KeyParts(key) == LET parts == Split(key, ":") IN <<parts[1], parts[2]>>

\* RadioStationService.calculateAverageCriteria
calculateAverageCriteria(tracks, existingCriteria) ==
  LET attributeValues == CountKeys(AllTrackKeys(tracks))
  IN IF tracks = <<>> THEN existingCriteria
     ELSE [i \in 1..Len(attributeValues) |->
             [attribute |-> Str(KeyParts(attributeValues[i].key)[1]),
              value     |-> KeyParts(attributeValues[i].key)[2],
              weight    |-> FDiv(FromInt(attributeValues[i].count), FromInt(Len(tracks)))]]

\* RadioStationService.updateStationFromTracks: the store afterwards and
\* the outcome.
updateStationFromTracks(stations, id, tracks, now) ==
  LET existing == getStationById(stations, id) IN
  IF existing = Null
  THEN [stations |-> stations, outcome |-> "Station not found"]
  ELSE [stations |-> storeStation(stations,
                       [existing EXCEPT
                          !.criteria = calculateAverageCriteria(tracks, existing.criteria),
                          !.updatedAt = now]),
        outcome  |-> "ok"]

(* ------------------------------------------------------------------ *)
(* Genre similarity                                                     *)
(* ------------------------------------------------------------------ *)

\* .replace(/\s+/g, ' '): every run of spaces becomes one space.
CollapseSpaces(s) ==
  LET keep == {i \in 1..Len(s) : ~(IsSpace(s[i]) /\ i > 1 /\ IsSpace(s[i - 1]))}
  IN  [k \in 1..Cardinality(keep) |->
         s[CHOOSE i \in keep : Cardinality({j \in keep : j < i}) = k - 1]]

\* .replace(/-/g, ' ').
ReplaceHyphens(s) == [i \in 1..Len(s) |-> IF s[i] = "-" THEN " " ELSE s[i]]

\* normalizeGenre: lowerGenre.
lowerGenre(genre) == Str(ReplaceHyphens(CollapseSpaces(Trim(toLowerCase(genre)))))

\* normalizeGenre: genreMap.
genreMap ==
  [k \in {"alt. rock", "rhythm & blues", "rhythm and blues", "r&b", "r&b music"} |->
     IF k = "alt. rock" THEN "alternative rock" ELSE "r&b"]

\* normalizeGenre: genreMap[lowerGenre] || genre, the mapped name or else
\* the genre as it was given.
normalizeGenre(genre) ==
  LET lower == lowerGenre(genre)
  IN  IF lower \in DOMAIN genreMap THEN genreMap[lower] ELSE Str(genre)

\* genreSimilarity: the relationships table, in its order.
relationships ==
  <<
    <<"pop", "dance", Point7>>, <<"pop", "synth pop", Point6>>, <<"pop", "indie pop", Point7>>,
    <<"pop", "adult contemporary", Point6>>, <<"dance", "electronic", Point6>>,
    <<"dance", "house", Point8>>, <<"dance", "techno", Point6>>,
    <<"dance", "progressive house", Point7>>, <<"dance", "deep house", Point8>>,
    <<"rock", "alternative rock", Point8>>, <<"rock", "punk", Point7>>,
    <<"rock", "metal", Point6>>, <<"rock", "hard rock", Point8>>,
    <<"rock", "progressive rock", Point6>>, <<"rock", "indie rock", Point8>>,
    <<"alternative rock", "indie rock", Point8>>, <<"alternative rock", "grunge", Point7>>,
    <<"punk", "post punk", Point6>>, <<"punk", "ska", Half>>, <<"electronic", "house", Point7>>,
    <<"electronic", "techno", Point7>>, <<"electronic", "ambient", Half>>,
    <<"electronic", "dubstep", Point6>>, <<"electronic", "drum and bass", Point6>>,
    <<"house", "deep house", Point8>>, <<"house", "progressive house", Point8>>,
    <<"techno", "acid techno", Point8>>, <<"techno", "progressive techno", Point7>>,
    <<"techno", "minimal techno", Point7>>, <<"hip hop", "rap", Point9>>,
    <<"hip hop", "trap", Point7>>, <<"hip hop", "conscious rap", Point7>>,
    <<"hip hop", "gangsta rap", Point8>>, <<"rap", "conscious rap", Point7>>,
    <<"rap", "gangsta rap", Point8>>, <<"trap", "melodic trap", Point6>>,
    <<"trap", "cloud rap", Half>>, <<"soul", "r&b", Point8>>, <<"soul", "funk", Point7>>,
    <<"soul", "motown", Point7>>, <<"r&b", "contemporary r&b", Point8>>,
    <<"r&b", "neo soul", Point7>>, <<"funk", "disco", Point6>>, <<"funk", "soul funk", Point8>>,
    <<"jazz", "fusion", Point7>>, <<"jazz", "smooth jazz", Point6>>,
    <<"jazz", "bebop", Point6>>, <<"jazz", "swing", Half>>,
    <<"fusion", "progressive rock", Half>>, <<"bebop", "jazz fusion", Point7>>,
    <<"country", "bluegrass", Point7>>, <<"country", "folk", Point6>>,
    <<"country", "country rock", Point7>>, <<"bluegrass", "folk", Point6>>,
    <<"country rock", "alternative country", Point6>>, <<"classical", "orchestral", Point8>>,
    <<"classical", "baroque", Point7>>, <<"classical", "romantic", Point7>>,
    <<"orchestral", "symphonic", Point8>>, <<"baroque", "classical", Point7>>,
    <<"blues", "blues rock", Point7>>, <<"blues", "delta blues", Point8>>,
    <<"blues", "chicago blues", Point8>>, <<"blues rock", "hard blues", Point6>>,
    <<"reggae", "dub", Point7>>, <<"reggae", "ska", Half>>, <<"indie", "indie rock", Point8>>,
    <<"indie", "alternative rock", Point7>>, <<"folk", "acoustic", Point6>>,
    <<"folk", "traditional folk", Point6>>, <<"metal", "heavy metal", Point9>>,
    <<"metal", "thrash metal", Point8>>, <<"metal", "death metal", Point7>>,
    <<"metal", "black metal", Point6>>, <<"gospel", "soul", Point7>>,
    <<"gospel", "r&b", Point6>>, <<"disco", "funk", Point6>>, <<"disco", "pop", Half>>,
    <<"ambient", "new age", Half>>, <<"ambient", "idm", Point6>>,
    <<"world", "afrobeat", Point6>>, <<"world", "latin", Half>>,
    <<"world", "flamenco", Point4>>, <<"experimental", "avant garde", Point7>>,
    <<"experimental", "noise", Point6>>, <<"experimental", "free jazz", Point6>>,
    <<"punk", "hardcore punk", Point7>>, <<"pop", "boy band", Point6>>,
    <<"rock", "power pop", Point6>>, <<"house", "progressive", Point6>>,
    <<"techno", "house", Point7>>, <<"hip hop", "rap rock", Half>>, <<"soul", "disco", Point6>>,
    <<"jazz", "latin jazz", Point6>>, <<"alternative", "indie", Point8>>,
    <<"progressive", "progressive rock", Point7>>,
    <<"progressive", "progressive house", Point6>>, <<"rock", "pop rock", Point7>>,
    <<"rock", "soft rock", Point6>>, <<"rock", "goth rock", Half>>,
    <<"metal", "nu metal", Point7>>, <<"metal", "metalcore", Point6>>,
    <<"rap", "hip hop", Point9>>, <<"pop", "dance pop", Point7>>,
    <<"electronic", "synthwave", Half>>, <<"electronic", "chillout", Half>>,
    <<"rock", "acid rock", Point6>>, <<"jazz", "contemporary jazz", Point6>>,
    <<"funk", "soul funk", Point8>>, <<"country", "country pop", Point6>>,
    <<"reggae", "dub reggae", Point8>>, <<"indie", "indie pop", Point7>>,
    <<"metal", "thrash", Point8>>, <<"hip hop", "east coast hip hop", Point7>>
  >>

\* (A row test that matches a row in its stored order only.)
RowMatches_Ordered(row, g1, g2) == g1 = row[1] /\ g2 = row[2]

\* genreSimilarity: the test of one row.
RowMatches(row, g1, g2) ==
  (g1 = row[1] /\ g2 = row[2]) \/ (g1 = row[2] /\ g2 = row[1])

\* genreSimilarity: 1 for equal normalized genres, else the score of the
\* first row that matches, else 0.
genreSimilarity(genre1, genre2) ==
  LET g1 == normalizeGenre(genre1)
      g2 == normalizeGenre(genre2)
      hits == {i \in DOMAIN relationships : RowMatches(relationships[i], g1, g2)}
  IN  IF g1 = g2 THEN One
      ELSE IF hits /= {} THEN relationships[CHOOSE i \in hits : \A j \in hits : i <= j][3]
      ELSE Zero

(* ------------------------------------------------------------------ *)
(* The cache update pass                                                *)
(* ------------------------------------------------------------------ *)

\* (A pass that deletes nothing.)
DeletedEntries_None(cachedFiles, audioFiles) == <<>>

\* The ids of the cached entries whose file the scan did not return.
DeletedEntries(cachedFiles, audioFiles) ==
  LET gone == SelectSeq(cachedFiles, LAMBDA entry : entry.filePath \notin Range(audioFiles))
  IN  [k \in 1..Len(gone) |-> gone[k].id]

\* The scanned files that no cached entry names.
NewFiles(cachedFiles, audioFiles) ==
  SelectSeq(audioFiles,
            LAMBDA name : \A k \in 1..Len(cachedFiles) : cachedFiles[k].filePath /= name)

(* ------------------------------------------------------------------ *)
(* State                                                                *)
(* ------------------------------------------------------------------ *)

VARIABLES
  db,             \* MusicCacheService.db: whether the database is open
  tree,           \* the files of the directory tree
  musicLibrary,   \* the musicLibrary object store
  albumArt,       \* the albumArt object store
  radioStations,  \* the radioStations object store
  clock,          \* the time new Date() returns
  pc,             \* where the running updateCache pass is
  cachedFiles,    \* updateCache: the entries read at the start of the pass
  audioFiles,     \* updateCache: the scanned files
  deletedEntries, \* updateCache: the ids to delete
  newFiles,       \* updateCache: the files to extract
  idx,            \* updateCache: the loop index i (from 1)
  pending,        \* updateCache: the entry built for newFiles[idx]
  extractedArt,   \* updateCache: whether extractAlbumArt found art in newFiles[idx]
  skipped,        \* the new files of the pass that got no entry
  createdStations, \* scanForRadioStations: the groups it created a station for
  createdAt,      \* scanForRadioStations: when it created them
  progress,       \* the (current, total) reports of the pass, in order
  call,           \* the last call that returned or threw, with its outcome
  input,          \* the arguments of the next call of a pure function
  generationId,   \* _generationId of the search module
  searches,       \* the performSearch calls so far, by their gen
  searchResults,  \* the results last given to setSearchResults
  isSearching,    \* the flag last given to setIsSearching
  currentTrack,   \* PlaybackService.currentTrack
  playbackHistory, \* PlaybackService.playbackHistory
  selectedStation, \* PlaybackService.selectedStation
  nextTrack,      \* PlaybackService.nextTrack
  currentTime,    \* audioElement.currentTime, in seconds
  calls           \* the asynchronous calls of the playback service and stop(), in call order

storeVars == <<db, musicLibrary, albumArt, radioStations, clock>>
passVars  == <<pc, cachedFiles, audioFiles, deletedEntries, newFiles, idx, pending,
               extractedArt, skipped, createdStations, createdAt, progress>>
cacheVars == <<storeVars, tree, passVars>>
searchVars == <<generationId, searches, searchResults, isSearching>>
playbackVars == <<currentTrack, playbackHistory, selectedStation, nextTrack,
                  currentTime, calls>>
vars == <<cacheVars, call, input, searchVars, playbackVars>>

NoCall == [op |-> "none"]
NoEntry == [id |-> "none"]

\* The latest time of a modelled run.
MaxClock == 3

InitStores ==
  /\ db = FALSE
  /\ musicLibrary = EmptyStore
  /\ albumArt = EmptyStore
  /\ radioStations = EmptyStore
  /\ clock = 0

InitPass ==
  /\ pc = "idle"
  /\ cachedFiles = <<>>
  /\ audioFiles = <<>>
  /\ deletedEntries = <<>>
  /\ newFiles = <<>>
  /\ idx = 0
  /\ pending = NoEntry
  /\ extractedArt = "none"
  /\ skipped = {}
  /\ createdStations = <<>>
  /\ createdAt = 0
  /\ progress = <<>>

NoResults == [gen |-> 0, query |-> "none"]

InitSearch ==
  /\ generationId = 0
  /\ searches = <<>>
  /\ searchResults = NoResults
  /\ isSearching = FALSE

NoTrack == "none"
NoStation == [name |-> "none", isTemporary |-> FALSE]

\* The fields of a new PlaybackService; its constructor creates the audio element.
InitPlayback ==
  /\ currentTrack = NoTrack
  /\ playbackHistory = <<>>
  /\ selectedStation = NoStation
  /\ nextTrack = NoTrack
  /\ currentTime = 0
  /\ calls = <<>>

InitCache ==
  /\ InitStores
  /\ InitPass
  /\ tree = {}

Init ==
  /\ InitCache
  /\ InitSearch
  /\ InitPlayback
  /\ call = NoCall
  /\ input = NoCall

(* ------------------------------------------------------------------ *)
(* Actions of the cache                                                 *)
(* ------------------------------------------------------------------ *)

\* initDB: the database is opened.
InitDB ==
  /\ pc = "idle"
  /\ ~db
  /\ db' = TRUE
  /\ UNCHANGED <<musicLibrary, albumArt, radioStations, clock, tree, passVars, call>>

\* The user adds a file to the tree or removes one, between passes.
FsChange ==
  /\ pc = "idle"
  /\ \E p \in Range(AllPaths) :
       tree' = IF p \in tree THEN tree \ {p} ELSE tree \cup {p}
  /\ UNCHANGED <<storeVars, passVars, call>>

\* Time passes.
Tick ==
  /\ clock < MaxClock
  /\ clock' = clock + 1
  /\ UNCHANGED <<db, musicLibrary, albumArt, radioStations, tree, passVars, call>>

\* updateCache before initDB: it throws.
UpdateCacheNoDb ==
  /\ pc = "idle"
  /\ ~db
  /\ call' = [op |-> "updateCache", outcome |-> "Database not initialized"]
  /\ UNCHANGED <<storeVars, tree, passVars>>

\* updateCache up to its first write: the cache is read, the tree scanned,
\* the first progress report made and the vanished entries found.
BeginUpdateCache ==
  /\ pc = "idle"
  /\ db
  /\ \E failedDirs \in SUBSET {"sub"} :
       LET cached == getAllCachedEntries(musicLibrary)
           files  == scanDirectoryForAudioFiles(tree, failedDirs)
       IN  /\ cachedFiles' = cached
           /\ audioFiles' = files
           /\ deletedEntries' = DeletedEntries(cached, files)
           /\ newFiles' = NewFiles(cached, files)
           /\ progress' = << <<0, Len(files)>> >>
  /\ pc' = "delete"
  /\ idx' = 0
  /\ pending' = NoEntry
  /\ extractedArt' = "none"
  /\ skipped' = {}
  /\ call' = NoCall
  /\ UNCHANGED <<storeVars, tree, createdStations, createdAt>>

\* (A pass that a failed extraction ends with an error.)
AfterFile_AbortOnSkip(i, reports) ==
  IF i > 0 /\ newFiles[i] \in skipped'
  THEN /\ pc' = "idle"
       /\ idx' = i
       /\ progress' = reports
       /\ call' = [op |-> "updateCache", outcome |-> "error"]
  ELSE IF i < Len(newFiles)
  THEN /\ pc' = "extract"
       /\ idx' = i + 1
       /\ progress' = reports
       /\ call' = call
  ELSE /\ idx' = i
       /\ progress' = Append(reports, <<0, 0>>)
       /\ pc' = "idle"
       /\ call' = [op |-> "updateCache", outcome |-> "ok"]

\* What follows the handling of newFiles[i]: the next file, or the reset of
\* the progress display and then discovery when the pass found a change.
AfterFile(i, reports) ==
  IF i < Len(newFiles)
  THEN /\ pc' = "extract"
       /\ idx' = i + 1
       /\ progress' = reports
       /\ call' = call
  ELSE /\ idx' = i
       /\ progress' = Append(reports, <<0, 0>>)
       /\ IF Len(deletedEntries) > 0 \/ Len(newFiles) > 0
          THEN pc' = "discover" /\ call' = call
          ELSE pc' = "idle" /\ call' = [op |-> "updateCache", outcome |-> "ok"]

\* The vanished entries are deleted; the new files are counted and reported.
DeleteVanished ==
  /\ pc = "delete"
  /\ musicLibrary' = IF Len(deletedEntries) > 0
                     THEN deleteEntries(musicLibrary, Range(deletedEntries))
                     ELSE musicLibrary
  /\ AfterFile(0, Append(progress, <<0, Len(newFiles)>>))
  /\ pending' = NoEntry
  /\ extractedArt' = "none"
  /\ UNCHANGED <<db, albumArt, radioStations, clock, tree, cachedFiles, audioFiles,
                 deletedEntries, newFiles, skipped, createdStations, createdAt>>

\* extractMetadata(newFiles[idx]) returns tags: the entry is built.
ExtractMetadata ==
  /\ pc = "extract"
  /\ pending' = MakeEntry(newFiles[idx], TagsOf(newFiles[idx]))
  /\ extractedArt' = "none"
  /\ pc' = "store"
  /\ UNCHANGED <<storeVars, tree, cachedFiles, audioFiles, deletedEntries, newFiles, idx,
                 skipped, createdStations, createdAt, progress, call>>

\* extractMetadata(newFiles[idx]) returns null or throws: the file is skipped.
ExtractFails ==
  /\ pc = "extract"
  /\ skipped' = skipped \cup {newFiles[idx]}
  /\ AfterFile(idx, progress)
  /\ pending' = NoEntry
  /\ extractedArt' = "none"
  /\ UNCHANGED <<storeVars, tree, cachedFiles, audioFiles, deletedEntries, newFiles,
                 createdStations, createdAt>>

\* (A loop that goes on to the album art without storing the entry.)
StoreEntry_NotStored ==
  /\ pc = "store"
  /\ pc' = "art"
  /\ UNCHANGED <<storeVars, tree, cachedFiles, audioFiles, deletedEntries, newFiles, idx,
                 pending, extractedArt, skipped, createdStations, createdAt, progress, call>>

\* storeEntries([entry]).
StoreEntry ==
  /\ pc = "store"
  /\ musicLibrary' = storeEntries(musicLibrary, <<pending>>)
  /\ pc' = "art"
  /\ UNCHANGED <<db, albumArt, radioStations, clock, tree, cachedFiles, audioFiles,
                 deletedEntries, newFiles, idx, pending, extractedArt, skipped, createdStations,
                 createdAt, progress, call>>

\* extractAlbumArt, and storeAlbumArt when the file has art.
StoreArt ==
  /\ pc = "art"
  /\ \E hasArt \in BOOLEAN :
       /\ albumArt' = IF hasArt THEN storeAlbumArt(albumArt, newFiles[idx]) ELSE albumArt
       /\ extractedArt' = IF hasArt THEN "art" ELSE "no art"
  /\ pc' = "report"
  /\ UNCHANGED <<db, musicLibrary, radioStations, clock, tree, cachedFiles, audioFiles,
                 deletedEntries, newFiles, idx, pending, skipped, createdStations,
                 createdAt, progress, call>>

\* onProgressCallback(i + 1, newFiles.length), which ends the handling of
\* the file.
ReportProgress ==
  /\ pc = "report"
  /\ AfterFile(idx, Append(progress, <<idx, Len(newFiles)>>))
  /\ pending' = NoEntry
  /\ extractedArt' = "none"
  /\ UNCHANGED <<storeVars, tree, cachedFiles, audioFiles, deletedEntries, newFiles,
                 skipped, createdStations, createdAt>>

\* scanForRadioStations up to its sort: the groups are built and a station
\* is created for each large group with a new name.
Discover ==
  /\ pc = "discover"
  /\ LET r == scanForRadioStations(musicLibrary, radioStations, clock)
     IN  /\ radioStations' = r.stations
         /\ createdStations' = r.created
  /\ createdAt' = clock
  /\ pc' = "images"
  /\ UNCHANGED <<db, musicLibrary, albumArt, clock, tree, cachedFiles, audioFiles,
                 deletedEntries, newFiles, idx, pending, extractedArt, skipped, progress, call>>

\* The rest of scanForRadioStations: the images; updateCache returns.
AssignImages ==
  /\ pc = "images"
  /\ radioStations' = assignImages(radioStations, createdStations, createdAt, clock)
  /\ pc' = "idle"
  /\ createdStations' = <<>>
  /\ call' = [op |-> "updateCache", outcome |-> "ok"]
  /\ UNCHANGED <<db, musicLibrary, albumArt, clock, tree, cachedFiles, audioFiles,
                 deletedEntries, newFiles, idx, pending, extractedArt, skipped, createdAt, progress>>

UpdateCacheStep ==
  \/ BeginUpdateCache
  \/ DeleteVanished
  \/ ExtractMetadata
  \/ ExtractFails
  \/ StoreEntry
  \/ StoreArt
  \/ ReportProgress
  \/ Discover
  \/ AssignImages

Next ==
  /\ \/ InitDB
     \/ FsChange
     \/ UpdateCacheNoDb
     \/ UpdateCacheStep
  /\ UNCHANGED <<input, searchVars, playbackVars>>

Spec == Init /\ [][Next]_vars

(* ------------------------------------------------------------------ *)
(* Search: the generation guard                                         *)
(* ------------------------------------------------------------------ *)

\* The searches a run starts at most.
MaxSearches == 3

Queries == {"alpha", "beta"}

\* (A guard that lets every result through.)
IsCurrent_Always(gen, latest) == TRUE

\* gen === _generationId
IsCurrent(gen, latest) == gen = latest

\* performSearch up to its await: the generation is taken, the flag set.
StartSearch ==
  /\ generationId < MaxSearches
  /\ \E searchQuery \in Queries :
       searches' = Append(searches, [query |-> searchQuery, status |-> "running"])
  /\ generationId' = generationId + 1
  /\ isSearching' = TRUE
  /\ UNCHANGED searchResults

\* findSearchResults resolves for the search of generation gen: its results
\* are applied if it is still the latest search, and dropped otherwise.
DeliverResults(gen) ==
  /\ searches[gen].status = "running"
  /\ IF IsCurrent(gen, generationId)
     THEN /\ searchResults' = [gen |-> gen, query |-> searches[gen].query]
          /\ isSearching' = FALSE
          /\ searches' = [searches EXCEPT ![gen].status = "applied"]
     ELSE /\ searches' = [searches EXCEPT ![gen].status = "discarded"]
          /\ UNCHANGED <<searchResults, isSearching>>
  /\ UNCHANGED generationId

\* findSearchResults rejects: the catch block clears the flag.
SearchFails(gen) ==
  /\ searches[gen].status = "running"
  /\ searches' = [searches EXCEPT ![gen].status = "failed"]
  /\ isSearching' = FALSE
  /\ UNCHANGED <<generationId, searchResults>>

NextSearch ==
  /\ \/ StartSearch
     \/ \E gen \in DOMAIN searches : DeliverResults(gen)
     \/ \E gen \in DOMAIN searches : SearchFails(gen)
  /\ UNCHANGED <<cacheVars, call, input, playbackVars>>

SpecSearch == Init /\ [][NextSearch]_vars

\* C2: a search started before an earlier one has delivered is the only one
\* of the two whose results are applied: results are applied only by the
\* search that is the latest started at that moment, and once the latest
\* search has delivered, the applied results are its results.
C2_OnlyLatestSearchApplies ==
  /\ \A gen \in DOMAIN searches :
       searches[gen].status = "applied" =>
         \A later \in DOMAIN searches :
           later > gen /\ searches[later].status = "applied" => searchResults.gen /= gen
  /\ generationId > 0 /\ searches[generationId].status = "applied" =>
       searchResults = [gen |-> generationId, query |-> searches[generationId].query]
  /\ searchResults.gen > 0 => searches[searchResults.gen].status = "applied"

\* Search A is overtaken by search B: B's results are applied and A's,
\* arriving afterwards, are dropped.
C2_Witness ==
  \E a, b \in DOMAIN searches :
    /\ a < b
    /\ searches[a].status = "discarded"
    /\ searches[b].status = "applied"
    /\ searches[a].query /= searches[b].query
    /\ searchResults = [gen |-> b, query |-> searches[b].query]

(* ------------------------------------------------------------------ *)
(* Discovery over a growing and shrinking library                       *)
(* ------------------------------------------------------------------ *)

\* The most tracks the library holds.
MaxTracks == 22

\* Tracks enter and leave the library in batches; two batches of one kind
\* make a group large enough for a station.
BatchSize == MIN_GROUP_SIZE \div 2 + 1

TagsJazz ==
  [title |-> <<"T">>, artist |-> <<"C">>, album |-> <<"M">>,
   genre |-> << <<"J","a","z","z">> >>, year |-> 1979, mood |-> <<>>]

\* The kinds of track: a letter for the file names, and the tags.
TrackKinds ==
  << [letter |-> "r", tags |-> TagsFull], [letter |-> "j", tags |-> TagsJazz] >>

KindEntry(kind, n) ==
  MakeEntry(<<kind.letter>> \o toString(n) \o <<".","m","p","3">>, kind.tags)

KindCount(library, kind) ==
  Cardinality({row \in StoreRows(library) : Head(row.filePath) = kind.letter})

discoveryFrame == <<db, albumArt, tree, passVars>>

\* A pass has stored the entries of a batch of new files.
LibraryGrows ==
  /\ db
  /\ Cardinality(StoreRows(musicLibrary)) + BatchSize <= MaxTracks
  /\ \E k \in DOMAIN TrackKinds :
       LET n == KindCount(musicLibrary, TrackKinds[k])
       IN musicLibrary' = storeEntries(musicLibrary,
            [i \in 1..BatchSize |-> KindEntry(TrackKinds[k], n + i)])
  /\ UNCHANGED <<radioStations, clock, call>>

\* A pass has deleted the entries of a batch of vanished files.
LibraryShrinks ==
  /\ db
  /\ \E k \in DOMAIN TrackKinds :
       LET n == KindCount(musicLibrary, TrackKinds[k])
       IN /\ n >= BatchSize
          /\ musicLibrary' = deleteEntries(musicLibrary,
               {KindEntry(TrackKinds[k], n - i).id : i \in 0..(BatchSize - 1)})
  /\ UNCHANGED <<radioStations, clock, call>>

\* scanForRadioStations, from its read of the library to the last image.
RunDiscovery ==
  /\ db
  /\ LET r == scanForRadioStations(musicLibrary, radioStations, clock)
         after == assignImages(r.stations, r.created, clock, clock)
     IN  /\ radioStations' = after
         /\ call' = [op |-> "scanForRadioStations", library |-> musicLibrary,
                     before |-> radioStations, after |-> after,
                     created |-> Len(r.created),
                     rerun |-> /\ call.op = "scanForRadioStations"
                               /\ call.library = musicLibrary
                               /\ call.after = radioStations]
  /\ UNCHANGED <<musicLibrary, clock>>

NextDiscovery ==
  /\ \/ InitDB
     \/ Tick
     \/ LibraryGrows /\ UNCHANGED discoveryFrame
     \/ LibraryShrinks /\ UNCHANGED discoveryFrame
     \/ RunDiscovery /\ UNCHANGED discoveryFrame
  /\ UNCHANGED <<input, searchVars, playbackVars>>

SpecDiscovery == Init /\ [][NextDiscovery]_vars

NameJazz == <<"J","a","z","z">>
NameGone == <<"G","o","n","e">>

\* The stations a user creates, and the ids calls are made with: those of
\* the stations and one that no station ever has.
StationNames == {NameJazz}
StationIds == {stationGenerateId(name) : name \in StationNames \cup {NameGone}}

TrackJazz ==
  [artist |-> <<"A">>, album |-> <<"B">>,
   genre |-> <<"J","a","z","z",","," ","F","u","s","i","o","n">>,
   mood |-> <<>>, year |-> 1975]

CriteriaChoices ==
  {<<>>, <<[attribute |-> "genre", value |-> <<"j","a","z","z">>, weight |-> One]>>}

UpdateChoices ==
  {[name |-> <<"N","e","w">>], [criteria |-> <<>>],
   [name |-> <<>>, description |-> <<"d">>],
   [imagePath |-> [genre |-> "jazz", n |-> 1]]}

SeedChoices == {<<>>, <<TrackJazz>>}

NotInitialized == "Database not initialized"

stationFrame == <<db, musicLibrary, albumArt, tree, passVars>>

\* A call of the station service that finds no database: it throws.
Rejected(op, id) ==
  /\ ~db
  /\ call' = [op |-> op, id |-> id, db |-> FALSE, before |-> radioStations,
              outcome |-> NotInitialized]
  /\ UNCHANGED <<radioStations, clock>>

CreateStationCall ==
  \E name \in StationNames, criteria \in CriteriaChoices :
    \/ Rejected("createStation", stationGenerateId(name))
    \/ /\ db
       /\ radioStations' = createStation(radioStations,
             [name |-> name, description |-> <<>>, criteria |-> criteria], clock)
       /\ call' = [op |-> "createStation", id |-> stationGenerateId(name), db |-> TRUE,
                   before |-> radioStations, outcome |-> "ok"]
       /\ UNCHANGED clock

UpdateStationCall ==
  \E id \in StationIds, updates \in UpdateChoices :
    \/ Rejected("updateStation", id)
    \/ /\ db
       /\ LET r == updateStation(radioStations, id, updates, clock)
          IN  /\ radioStations' = r.stations
              /\ call' = [op |-> "updateStation", id |-> id, db |-> TRUE,
                          before |-> radioStations, updates |-> updates,
                          outcome |-> r.outcome]
       /\ UNCHANGED clock

UpdateStationFromTracksCall ==
  \E id \in StationIds, tracks \in SeedChoices :
    \/ Rejected("updateStationFromTracks", id)
    \/ /\ db
       /\ LET r == updateStationFromTracks(radioStations, id, tracks, clock)
          IN  /\ radioStations' = r.stations
              /\ call' = [op |-> "updateStationFromTracks", id |-> id, db |-> TRUE,
                          before |-> radioStations, outcome |-> r.outcome]
       /\ UNCHANGED clock

DeleteStationCall ==
  \E id \in StationIds :
    \/ Rejected("deleteStation", id)
    \/ /\ db
       /\ radioStations' = deleteStation(radioStations, id)
       /\ call' = [op |-> "deleteStation", id |-> id, db |-> TRUE,
                   before |-> radioStations, outcome |-> "ok"]
       /\ UNCHANGED clock

NextStations ==
  /\ \/ InitDB
     \/ Tick
     \/ CreateStationCall /\ UNCHANGED stationFrame
     \/ UpdateStationCall /\ UNCHANGED stationFrame
     \/ UpdateStationFromTracksCall /\ UNCHANGED stationFrame
     \/ DeleteStationCall /\ UNCHANGED stationFrame
  /\ UNCHANGED <<input, searchVars, playbackVars>>

SpecStations == Init /\ [][NextStations]_vars

IsUpdateCall == call.op \in {"updateStation", "updateStationFromTracks"}

\* C4: with the database open, updateStation and updateStationFromTracks
\* called with an id that no stored station has throw 'Station not found',
\* and the station store after the call is the store before it.
C4_UpdateOfMissingStationFails ==
  IsUpdateCall /\ call.db /\ call.id \notin DOMAIN call.before =>
    call.outcome = "Station not found" /\ radioStations = call.before

\* updateStationFromTracks has been called on a store that holds stations,
\* with an id none of them has.
C4_Witness ==
  /\ call.op = "updateStationFromTracks"
  /\ call.db
  /\ call.before /= EmptyStore
  /\ call.id \notin DOMAIN call.before
  /\ call.outcome = "Station not found"

(* ------------------------------------------------------------------ *)
(* Genre similarity over the table's genres and their spellings          *)
(* ------------------------------------------------------------------ *)

\* The genres of the relationships table.
TableGenres ==
  {relationships[i][1] : i \in DOMAIN relationships}
    \cup {relationships[i][2] : i \in DOMAIN relationships}

\* Other spellings of genres, aliases, and a genre the table does not have.
GenreSpellings ==
  {"Rock", "ROCK", " rock", "rock ", "Hip-Hop", "hip-hop", "hip  hop", "Rap",
   "R&B", "rhythm and blues", "Rhythm & Blues", "rhythm  and blues", "r&b music",
   "alt. rock", "Alt. Rock", "polka", ""}

GenreLabels == {Chars(str) : str \in TableGenres \cup GenreSpellings}

InitGenre ==
  /\ InitCache
  /\ InitSearch
  /\ InitPlayback
  /\ call = NoCall
  /\ input \in [genre1 : GenreLabels, genre2 : GenreLabels]

GenreSimilarityCall ==
  /\ call = NoCall
  /\ call' = [op |-> "genreSimilarity", genre1 |-> input.genre1, genre2 |-> input.genre2,
               result |-> genreSimilarity(input.genre1, input.genre2)]
  /\ UNCHANGED <<cacheVars, input, searchVars, playbackVars>>

NextGenre == GenreSimilarityCall

SpecGenre == InitGenre /\ [][NextGenre]_vars

\* The labels that differ from a genre only in letter case, hyphens for
\* spaces, and leading, trailing or repeated spaces.
SpellingsOf(genre) == {l \in GenreLabels : lowerGenre(l) = lowerGenre(genre)}

\* C5: genreSimilarity gives the same score for every spelling of its
\* arguments: labels that differ only in letter case, hyphen versus space,
\* leading or trailing spaces or runs of spaces.
C5_SimilarityInvariantUnderSpelling ==
  call.op = "genreSimilarity" =>
    \A a \in SpellingsOf(call.genre1), b \in SpellingsOf(call.genre2) :
      genreSimilarity(a, b) = call.result

\* The normalized form of a genre: lowercased, trimmed, runs of spaces
\* collapsed, hyphens replaced by spaces, aliases mapped to their genre.
NormalizedForm(genre) ==
  IF lowerGenre(genre) \in DOMAIN genreMap THEN genreMap[lowerGenre(genre)]
  ELSE lowerGenre(genre)

\* C6: genreSimilarity is 1 whenever its two arguments have the same
\* normalized form.
C6_SameNormalizedFormScoresOne ==
  call.op = "genreSimilarity" /\ NormalizedForm(call.genre1) = NormalizedForm(call.genre2) =>
    call.result = One

\* C7: genreSimilarity(a, b) = genreSimilarity(b, a), and every row of the
\* table stored for the unordered pair of the two genres, in either order,
\* has the score returned.
C7_SimilarityIsSymmetric ==
  call.op = "genreSimilarity" =>
    LET g1 == normalizeGenre(call.genre1)
        g2 == normalizeGenre(call.genre2)
    IN  /\ call.result = genreSimilarity(call.genre2, call.genre1)
        /\ g1 /= g2 =>
             \A i \in DOMAIN relationships :
               RowMatches(relationships[i], g1, g2) => relationships[i][3] = call.result

\* A pair of different genres that the table stores in both orders, scored
\* by the first of the two rows.
C7_Witness ==
  /\ call.op = "genreSimilarity"
  /\ call.result \notin {Zero, One}
  /\ LET g1 == normalizeGenre(call.genre1)
         g2 == normalizeGenre(call.genre2)
     IN  \E i, j \in DOMAIN relationships :
           /\ i < j
           /\ RowMatches_Ordered(relationships[j], g1, g2)
           /\ RowMatches_Ordered(relationships[i], g2, g1)

(* ------------------------------------------------------------------ *)
(* Scoring a track against criteria                                     *)
(* ------------------------------------------------------------------ *)

\* The longest criteria list scored.
MaxCriteria == 3

TrackFusion ==
  [artist |-> <<"A">>, album |-> <<"B">>,
   genre |-> <<"J","a","z","z",","," ","F","u","s","i","o","n">>, mood |-> <<>>,
   year |-> 1975]
TrackUntagged ==
  [artist |-> <<>>, album |-> <<"B">>, genre |-> <<"J","a","z","z">>, mood |-> <<>>,
   year |-> 1979]
ScoreTracks == {TrackFusion, TrackUntagged}

Criterion(attribute, value, weight) ==
  [attribute |-> attribute, value |-> Chars(value), weight |-> weight]

ScoreCriteria ==
  {Criterion("artist", "a", Point1), Criterion("artist", "a", One),
   Criterion("artist", "a", Zero), Criterion("artist", "", One),
   Criterion("album", "B", Point3), Criterion("album", "B", One),
   Criterion("genre", "jazz", One), Criterion("genre", "fusion", Point3),
   Criterion("genre", "rock", One), Criterion("decade", "1970", Point3)}

CriteriaLists == UNION {[1..n -> ScoreCriteria] : n \in 1..MaxCriteria}

InitScore ==
  /\ InitCache
  /\ InitSearch
  /\ InitPlayback
  /\ call = NoCall
  /\ input \in [track : ScoreTracks, criteria : CriteriaLists]

\* calculateTrackScore, with the weights normalizeWeights gave it.
CalculateTrackScoreCall ==
  /\ call = NoCall
  /\ call' = [op |-> "calculateTrackScore", track |-> input.track,
               criteria |-> input.criteria,
               weights |-> normalizeWeights(input.criteria),
               score |-> calculateTrackScore(input.track, input.criteria)]
  /\ UNCHANGED <<cacheVars, input, searchVars, playbackVars>>

NextScore == CalculateTrackScoreCall

SpecScore == InitScore /\ [][NextScore]_vars

\* A track matches a criterion exactly: equality without regard to case,
\* for genre with one of the comma-separated genres of the track, for
\* decade with the decade of the track's year.
MatchesExactly(track, criterion) ==
  CASE criterion.attribute = "genre" ->
         \E k \in 1..Len(GenreParts(track.genre)) :
           toLowerCase(GenreParts(track.genre)[k]) = toLowerCase(criterion.value)
    [] criterion.attribute = "decade" ->
         toString((track.year \div 10) * 10) = criterion.value
    [] OTHER -> toLowerCase(track[criterion.attribute]) = toLowerCase(criterion.value)

\* The criteria have pairwise distinct attributes and positive weights, and
\* the track matches each of them exactly.
ExactMatchOnAll(track, criteria) ==
  /\ \A i, j \in 1..Len(criteria) : i /= j => criteria[i].attribute /= criteria[j].attribute
  /\ \A i \in 1..Len(criteria) :
       /\ FLess(Zero, criteria[i].weight)
       /\ MatchesExactly(track, criteria[i])

\* 1 - 2^-49 and 1 + 2^-49.
OneBelow == [m |-> <<32752, 32767, 32767, 255>>, e |-> -53]
OneAbove == [m |-> <<8, 0, 0, 128>>, e |-> -52]

\* C8 as stated: a track that matches every criterion exactly has score
\* exactly 1 whenever the criteria have pairwise distinct attributes and
\* positive weights, whatever the weights are.
C8_ExactMatchScoresOne ==
  call.op = "calculateTrackScore" /\ ExactMatchOnAll(call.track, call.criteria) =>
    call.score = One

\* C8 amended: a track that matches every criterion exactly, the criteria
\* having non-empty values, pairwise distinct attributes and positive
\* weights, has a score within 2^-49 of 1, and exactly 1 when there is one
\* criterion or there are two of the same weight.
C8_ExactMatchScoresOneUpToRounding ==
  /\ call.op = "calculateTrackScore"
  /\ ExactMatchOnAll(call.track, call.criteria)
  /\ \A i \in 1..Len(call.criteria) : call.criteria[i].value /= <<>>
  =>
    /\ ~FLess(call.score, OneBelow)
    /\ ~FLess(OneAbove, call.score)
    /\ Len(call.criteria) = 1 => call.score = One
    /\ Len(call.criteria) = 2 /\ call.criteria[1].weight = call.criteria[2].weight =>
         call.score = One

\* A track scored on three criteria of different attributes and weights,
\* all matched exactly, one of them a genre of a two-genre track.
C8_Witness ==
  /\ call.op = "calculateTrackScore"
  /\ ExactMatchOnAll(call.track, call.criteria)
  /\ \A i \in 1..Len(call.criteria) : call.criteria[i].value /= <<>>
  /\ Len(call.criteria) = 3
  /\ call.criteria[1].weight /= call.criteria[2].weight
  /\ \E i \in 1..3 : call.criteria[i].attribute = "genre"
  /\ Len(GenreParts(call.track.genre)) = 2

\* C9: normalizeWeights maps each attribute to the sum of the weights of
\* the criteria with the attribute, divided by the total of all weights,
\* and to 0 when the total is 0.
C9_WeightIsAttributeShareOfTotal ==
  call.op = "calculateTrackScore" =>
    LET summed == SetWeights_Summing(call.criteria, << >>)
        total  == TotalWeight(call.criteria, Zero)
    IN  call.weights =
          [attr \in DOMAIN summed |->
             IF FLess(Zero, total) THEN FDiv(summed[attr], total) ELSE Zero]

(* ------------------------------------------------------------------ *)
(* Deriving criteria from seed tracks                                   *)
(* ------------------------------------------------------------------ *)

\* The most seed tracks of one derivation.
MaxSeeds == 3

SeedTrack(artist, album, genre, year) ==
  [artist |-> Chars(artist), album |-> Chars(album), genre |-> Chars(genre),
   mood |-> <<>>, year |-> year]

SeedTracks ==
  {SeedTrack("A", "B", "Jazz, Fusion", 1975), SeedTrack("C", "M", "Jazz", 1979),
   SeedTrack("AC:DC", "B", "Rock", 1981), SeedTrack("A", "", "Rock, Rock", 0)}

SeedLists == UNION {[1..n -> SeedTracks] : n \in 1..MaxSeeds}

InitCriteria ==
  /\ InitCache
  /\ InitSearch
  /\ InitPlayback
  /\ call = NoCall
  /\ input \in [tracks : SeedLists]

CalculateAverageCriteriaCall ==
  /\ call = NoCall
  /\ call' = [op |-> "calculateAverageCriteria", tracks |-> input.tracks,
               criteria |-> calculateAverageCriteria(input.tracks, <<>>)]
  /\ UNCHANGED <<cacheVars, input, searchVars, playbackVars>>

NextCriteria == CalculateAverageCriteriaCall

SpecCriteria == InitCriteria /\ [][NextCriteria]_vars

\* The (attribute, value) pairs a seed track exhibits: its artist, album
\* and mood if it has them, each of its comma-separated genres, and the
\* decade of its year.
PairsOf(track) ==
  {<<a, track[a]>> : a \in {a \in {"artist", "album", "mood"} : track[a] /= <<>>}}
    \cup (IF track.genre = <<>> THEN {}
          ELSE {<<"genre", GenreParts(track.genre)[k]>> : k \in 1..Len(GenreParts(track.genre))})
    \cup (IF track.year = 0 THEN {}
          ELSE {<<"decade", toString((track.year \div 10) * 10)>>})

\* C10: the criteria derived from a non-empty list of seed tracks are one
\* criterion for each distinct (attribute, value) pair of the seeds, with
\* the value unchanged and as weight the number of seeds that have the
\* pair divided by the number of seeds; for one seed every weight is 1.
C10_OneCriterionPerPairWeightedByShare ==
  call.op = "calculateAverageCriteria" =>
    LET seeds == call.tracks
        pairs == UNION {PairsOf(seeds[t]) : t \in 1..Len(seeds)}
        having(pair) == {t \in 1..Len(seeds) : pair \in PairsOf(seeds[t])}
    IN  /\ Len(call.criteria) = Cardinality(pairs)
        /\ {<<call.criteria[i].attribute, call.criteria[i].value>> :
               i \in 1..Len(call.criteria)} = pairs
        /\ \A i \in 1..Len(call.criteria) :
             LET c == call.criteria[i]
             IN  /\ c.weight = FDiv(FromInt(Cardinality(having(<<c.attribute, c.value>>))),
                                     FromInt(Len(seeds)))
                 /\ Len(seeds) = 1 => c.weight = One

(* ------------------------------------------------------------------ *)
(* Ids of file paths                                                    *)
(* ------------------------------------------------------------------ *)

\* The longest path hashed.
MaxPathLen == 7

\* The characters of the paths: the least and the greatest code unit of
\* the alphabet, and a letter.
PathChars == {" ", "a", "~"}

Paths == UNION {[1..n -> PathChars] : n \in 0..MaxPathLen}

InitHash ==
  /\ InitCache
  /\ InitSearch
  /\ InitPlayback
  /\ call = NoCall
  /\ input \in [path : Paths]

\* generateId(file.name), alone and as the id of the entry built for the file.
GenerateIdCall ==
  /\ call = NoCall
  /\ call' = [op |-> "generateId", path |-> input.path, id |-> generateId(input.path),
               entry |-> MakeEntry(input.path, TagsNone)]
  /\ UNCHANGED <<cacheVars, input, searchVars, playbackVars>>

NextHash == GenerateIdCall

SpecHash == InitHash /\ [][NextHash]_vars

\* The polynomial hash h := 31 * h + code unit over the first n characters,
\* from h = 0, as a natural number of any size.
RECURSIVE PolynomialHash(_, _)
PolynomialHash(s, n) ==
  IF n = 0 THEN <<>>
  ELSE BAdd(BMulSmall(PolynomialHash(s, n - 1), 31), BFromNat(CharCode(s[n])))

\* The signed 32-bit wrap-around value of a natural number.
Wrap32(a) ==
  LET limb(k) == IF k <= Len(a) THEN a[k] ELSE 0
      top == limb(3) % 4
  IN  (IF top >= 2 THEN (top - 4) * 1073741824 ELSE top * 1073741824)
        + limb(2) * Limb + limb(1)

\* C11: generateId(p) is the signed 32-bit wrap-around value of the
\* polynomial hash h := 31 * h + code unit over p from h = 0; it lies in
\* [-2^31, 2^31 - 1], and the entry built for a file has it as its id.
C11_IdIsWrappedPolynomialHash ==
  call.op = "generateId" =>
    /\ call.id = Wrap32(PolynomialHash(call.path, Len(call.path)))
    /\ call.id = generateId(call.path)
    /\ call.id >= -2147483647 - 1 /\ call.id <= 2147483647
    /\ call.entry.filePath = call.path /\ call.entry.id = call.id

\* A path whose polynomial hash is beyond 32 bits and wraps to a negative id.
C11_Witness ==
  /\ call.op = "generateId"
  /\ Len(PolynomialHash(call.path, Len(call.path))) >= 3
  /\ call.id < 0
  /\ call.entry.id = call.id

(* ------------------------------------------------------------------ *)
(* The cache after a pass (C1)                                          *)
(* ------------------------------------------------------------------ *)

\* updateCache has completed and no other pass has begun.
PassCompleted == pc = "idle" /\ call = [op |-> "updateCache", outcome |-> "ok"]

EntriesFor(name) == {entry \in StoreRows(musicLibrary) : entry.filePath = name}

NoOrphans == \A entry \in StoreRows(musicLibrary) : entry.filePath \in Range(audioFiles)

Collides(name) ==
  \E other \in Range(audioFiles) : other /= name /\ generateId(other) = generateId(name)

\* A skipped file has no entry; a pass that skipped files has returned
\* normally once it is over, and has handled every new file: each one it
\* did not skip has an entry, or its entry was replaced by that of a file
\* with the same id.
SkippedOnly ==
  /\ \A name \in skipped : EntriesFor(name) = {}
  /\ pc = "idle" /\ skipped /= {} => PassCompleted
  /\ PassCompleted =>
       /\ idx = Len(newFiles)
       /\ \A k \in 1..Len(newFiles) :
            newFiles[k] \notin skipped => EntriesFor(newFiles[k]) /= {} \/ Collides(newFiles[k])

\* The pass that begins takes every file the pass before it skipped, and
\* that the scan finds again, as a new file.
SkippedRetried ==
  pc = "idle" /\ pc' = "delete" =>
    \A name \in skipped : name \in Range(audioFiles') => name \in Range(newFiles')

SameNameTwice(name) ==
  \E i, j \in 1..Len(audioFiles) : i /= j /\ audioFiles[i] = name /\ audioFiles[j] = name

SkippedOnlyUnlessSameName ==
  /\ \A name \in skipped : SameNameTwice(name) \/ EntriesFor(name) = {}
  /\ pc = "idle" /\ skipped /= {} => PassCompleted
  /\ PassCompleted =>
       /\ idx = Len(newFiles)
       /\ \A k \in 1..Len(newFiles) :
            newFiles[k] \notin skipped => EntriesFor(newFiles[k]) /= {} \/ Collides(newFiles[k])

SkippedRetriedUnlessSameName ==
  pc = "idle" /\ pc' = "delete" =>
    \A name \in skipped :
      ~SameNameTwice(name) /\ name \in Range(audioFiles') => name \in Range(newFiles')

Returns(value) == [outcome |-> "ok", result |-> value]
Throws(message) == [outcome |-> message]

\* getAllCachedEntries, from its db check on.
getAllCachedEntriesOrThrow(dbOpen, library) ==
  IF ~dbOpen THEN Throws(NotInitialized) ELSE Returns(getAllCachedEntries(library))

\* getAlbumArtById.
getAlbumArtById(dbOpen, art, id) ==
  IF ~dbOpen THEN Throws(NotInitialized)
  ELSE Returns(IF id \in DOMAIN art THEN art[id] ELSE Null)

\* getAlbumArtUrl: the URL made of the art row of the track, null when there
\* is no row, and null when getAlbumArtById throws (the error is caught and
\* logged).
getAlbumArtUrl(dbOpen, art, track) ==
  LET firstTrackArt == getAlbumArtById(dbOpen, art, track.id)
  IN  IF firstTrackArt.outcome /= "ok" THEN Returns(Null)
      ELSE IF firstTrackArt.result /= Null
      THEN Returns([url |-> firstTrackArt.result.id])
      ELSE Returns(Null)

\* getTrackFromLibraryEntry: the track with its album art URL.
getTrackFromLibraryEntry(dbOpen, art, track) ==
  LET albumArtUrl == getAlbumArtUrl(dbOpen, art, track)
  IN  IF albumArtUrl.outcome /= "ok" THEN albumArtUrl
      ELSE Returns([track |-> track, albumArt |-> albumArtUrl.result])

\* The tracks the reads are about.
ReadNames == {NameAa, NameC}

readsFrame == <<radioStations, clock, tree, passVars>>

\* A pass has stored the entry of a new file, and its art if it has any.
PassStores ==
  /\ db
  /\ \E name \in ReadNames, hasArt \in BOOLEAN :
       /\ musicLibrary' = storeEntries(musicLibrary, <<MakeEntry(name, TagsOf(name))>>)
       /\ albumArt' = IF hasArt THEN storeAlbumArt(albumArt, name) ELSE albumArt
  /\ UNCHANGED <<db, call>>

\* A pass has deleted the entry of a vanished file.
PassDeletes ==
  /\ db
  /\ \E id \in DOMAIN musicLibrary : musicLibrary' = deleteEntries(musicLibrary, {id})
  /\ UNCHANGED <<db, albumArt, call>>

ReadCall(op, result) ==
  /\ call' = [op |-> op, db |-> db] @@ result
  /\ UNCHANGED <<db, musicLibrary, albumArt>>

GetAllCachedEntriesCall ==
  ReadCall("getAllCachedEntries", getAllCachedEntriesOrThrow(db, musicLibrary))

GetAlbumArtByIdCall ==
  \E name \in ReadNames :
    ReadCall("getAlbumArtById", getAlbumArtById(db, albumArt, generateId(name)))

GetAlbumArtUrlCall ==
  \E name \in ReadNames :
    ReadCall("getAlbumArtUrl", getAlbumArtUrl(db, albumArt, MakeEntry(name, TagsOf(name))))

GetTrackFromLibraryEntryCall ==
  \E name \in ReadNames :
    ReadCall("getTrackFromLibraryEntry",
             getTrackFromLibraryEntry(db, albumArt, MakeEntry(name, TagsOf(name))))

NextReads ==
  /\ \/ InitDB
     \/ UpdateCacheNoDb
     \/ PassStores /\ UNCHANGED readsFrame
     \/ PassDeletes /\ UNCHANGED readsFrame
     \/ GetAllCachedEntriesCall /\ UNCHANGED readsFrame
     \/ GetAlbumArtByIdCall /\ UNCHANGED readsFrame
     \/ GetAlbumArtUrlCall /\ UNCHANGED readsFrame
     \/ GetTrackFromLibraryEntryCall /\ UNCHANGED readsFrame
  /\ UNCHANGED <<input, searchVars, playbackVars>>

SpecReads == Init /\ [][NextReads]_vars

\* C13: an operation invoked while the database is not open throws
\* 'Database not initialized'; none returns a value.  (The database, once
\* open, stays open, so a call made before initDB is the last call of a
\* state in which the database is not open.)
C13_ClosedStoreThrows ==
  ~db /\ call /= NoCall => call.outcome = NotInitialized


(* ------------------------------------------------------------------ *)
(* Stored stations are replaced only through their own id (C14)          *)
(* ------------------------------------------------------------------ *)

\* The stored station under id is the same row after the step.
StationKept(id) == id \in DOMAIN radioStations' /\ radioStations'[id] = radioStations[id]

\* The step is an update of the station under id, which stays stored.
StationUpdated(id) ==
  /\ call'.op \in {"updateStation", "updateStationFromTracks"}
  /\ call'.id = id
  /\ id \in DOMAIN radioStations'

\* The step is deleteStation on id.
StationDeleted(id) == call'.op = "deleteStation" /\ call'.id = id

\* C14: a stored station is never removed or replaced except by
\* deleteStation on its id: over every step of the station service, each
\* stored station is the same row afterwards, or was updated through its
\* id, or was deleted through its id.
C14_StationReplacedOnlyByItsId ==
  [][\A id \in DOMAIN radioStations :
       StationKept(id) \/ StationUpdated(id) \/ StationDeleted(id)]_vars


(* ------------------------------------------------------------------ *)
(* Album art and the entries it belongs to (C15)                         *)
(* ------------------------------------------------------------------ *)

\* C15: in every state of every sequence of sync passes, each album-art row
\* has the id of a stored library entry (ids are the keys of the library, so
\* of exactly one): no art row is left whose entry has been deleted.
C15_ArtRowHasItsEntry ==
  \A id \in DOMAIN albumArt : id \in DOMAIN musicLibrary


(* ------------------------------------------------------------------ *)
(* Discovery over libraries of at most 20 tracks (C16)                   *)
(* ------------------------------------------------------------------ *)

\* A file whose tags name one genre twice.
TagsTwice ==
  [title |-> <<"T">>, artist |-> <<"D">>, album |-> <<"N">>,
   genre |-> << <<"S","k","a">>, <<"s","k","a">> >>, year |-> 1981, mood |-> <<>>]

SmallKinds == TrackKinds \o << [letter |-> "s", tags |-> TagsTwice] >>

\* Tracks enter and leave in halves of the least library discovery looks at.
HalfSize == MIN_LIBRARY_SIZE \div 2

SmallLibraryGrows ==
  /\ db
  /\ Cardinality(StoreRows(musicLibrary)) + HalfSize <= MIN_LIBRARY_SIZE
  /\ \E k \in DOMAIN SmallKinds :
       LET n == KindCount(musicLibrary, SmallKinds[k])
       IN musicLibrary' = storeEntries(musicLibrary,
            [i \in 1..HalfSize |-> KindEntry(SmallKinds[k], n + i)])
  /\ UNCHANGED <<radioStations, clock, call>>

SmallLibraryShrinks ==
  /\ db
  /\ \E k \in DOMAIN SmallKinds :
       LET n == KindCount(musicLibrary, SmallKinds[k])
       IN /\ n >= HalfSize
          /\ musicLibrary' = deleteEntries(musicLibrary,
               {KindEntry(SmallKinds[k], n - i).id : i \in 0..(HalfSize - 1)})
  /\ UNCHANGED <<radioStations, clock, call>>

NextSmallLibrary ==
  /\ \/ InitDB
     \/ Tick
     \/ SmallLibraryGrows /\ UNCHANGED discoveryFrame
     \/ SmallLibraryShrinks /\ UNCHANGED discoveryFrame
     \/ RunDiscovery /\ UNCHANGED discoveryFrame
  /\ UNCHANGED <<input, searchVars, playbackVars>>

SpecSmallLibrary == Init /\ [][NextSmallLibrary]_vars

\* C16: a discovery pass over a library of at most 20 cached tracks is a
\* no-op: the station store after the pass is the store before it.
C16_SmallLibraryPassIsNoOp ==
  call.op = "scanForRadioStations" /\ Cardinality(StoreRows(call.library)) <= 20 =>
    call.after = call.before


(* ------------------------------------------------------------------ *)
(* Images of discovered stations (C17)                                   *)
(* ------------------------------------------------------------------ *)

HasImage(station) == "imagePath" \in DOMAIN station

\* The stations a discovery pass created.
NewStations == {call.after[id] : id \in DOMAIN call.after \ DOMAIN call.before}

\* Every image of the genre is the image of a stored station.
AllImagesTaken(genre, stations) ==
  \A n \in 1..GenreImageCount[genre] :
    \E s \in StoreRows(stations) : HasImage(s) /\ s.imagePath = [genre |-> genre, n |-> n]

\* The genre of the station's first genre criterion has images.
HasImagesForGenre(station) ==
  /\ FindGenreCriterion(station.criteria) > 0
  /\ Str(toLowerCase(station.criteria[FindGenreCriterion(station.criteria)].value))
       \in DOMAIN GenreImageCount

\* C17: images are not reused and are handed out: no two stored stations
\* have the same imagePath, and after a discovery pass every station it
\* created that has a genre criterion with images has an image, unless all
\* images of the genre are taken.
C17_ImagesAssignedWithoutReuse ==
  /\ \A s, t \in StoreRows(radioStations) :
       HasImage(s) /\ HasImage(t) /\ s.imagePath = t.imagePath => s = t
  /\ call.op = "scanForRadioStations" =>
       \A station \in NewStations :
         HasImagesForGenre(station) =>
           \/ HasImage(station)
           \/ AllImagesTaken(Str(toLowerCase(
                station.criteria[FindGenreCriterion(station.criteria)].value)), call.after)


(* ------------------------------------------------------------------ *)
(* The order of the writes of a pass (C18)                               *)
(* ------------------------------------------------------------------ *)

\* The entry of newFiles[i] is stored, and its album art if it has any.
Persisted(i) ==
  LET name == newFiles[i]
      id   == generateId(name)
  IN  /\ id \in DOMAIN musicLibrary
      /\ musicLibrary[id].filePath = name
      /\ extractedArt = "art" =>
           id \in DOMAIN albumArt /\ albumArt[id].filePath = name

\* The pass is handling one of its new files.
InFileLoop == pc \in {"extract", "store", "art", "report"}

\* When the first new file is about to be extracted, no entry to delete is
\* left, and while a file is handled the loop index names it.
DeletionsCompleted ==
  /\ pc = "extract" /\ idx = 1 => Range(deletedEntries) \cap DOMAIN musicLibrary = {}
  /\ InFileLoop => idx \in 1..Len(newFiles)

\* Entries leave the library only in the deletion step of a pass.
DeletesOnlyFirst ==
  (\E id \in DOMAIN musicLibrary : id \notin DOMAIN musicLibrary') =>
    pc = "delete" /\ idx = 0 /\ Range(deletedEntries) \cap DOMAIN musicLibrary' = {}

\* A step that reports progress for file i finds it persisted.
ReportsAfterPersisting ==
  Len(progress') > Len(progress) /\ progress'[Len(progress) + 1][1] >= 1 =>
    /\ progress'[Len(progress) + 1] = <<idx, Len(newFiles)>>
    /\ Persisted(idx)

\* A step that turns to the next file leaves the one before skipped, or
\* persisted and reported; only the entry of the file in hand is written.
OneFileAtATime ==
  /\ InFileLoop /\ idx' = idx + 1 =>
       \/ newFiles[idx] \in skipped'
       \/ Persisted(idx) /\ progress'[Len(progress')] = <<idx, Len(newFiles)>>
  /\ InFileLoop /\ (musicLibrary' /= musicLibrary \/ albumArt' /= albumArt) =>
       /\ idx' = idx
       /\ \A id \in DOMAIN musicLibrary' :
            \/ id \in DOMAIN musicLibrary /\ musicLibrary'[id] = musicLibrary[id]
            \/ id = generateId(newFiles[idx])
       /\ \A id \in DOMAIN albumArt' :
            \/ id \in DOMAIN albumArt /\ albumArt'[id] = albumArt[id]
            \/ id = generateId(newFiles[idx])

ReportsDone == pc \in {"discover", "images", "idle"}

\* C19: of the reports of a pass, the last is the reset (0, 0); every one
\* before it has the number of new files of the pass as its total, and a
\* current that is not less than that of the report before.
C19_ProgressOverNewFilesOnly ==
  \A k \in 1..Len(progress) :
    IF k = Len(progress) /\ ReportsDone
    THEN progress[k] = <<0, 0>>
    ELSE /\ progress[k][2] = Len(newFiles)
         /\ k > 1 => progress[k - 1][1] <= progress[k][1]


(* ------------------------------------------------------------------ *)
(* When a pass runs discovery (C20)                                      *)
(* ------------------------------------------------------------------ *)

\* The library after the step holds the entries the pass began with.
EntriesUnchanged == StoreRows(musicLibrary') = Range(cachedFiles)

\* The step ends the file loop of a pass.
EndsFileLoop == pc \in {"delete", "extract", "report"} /\ pc' \in {"discover", "idle"}

\* C20: a pass runs discovery, after its terminal progress reset, exactly if
\* it added an entry to the cache or removed one: the step that ends the
\* file loop reports (0, 0) and goes on to discovery if and only if the
\* library is not the one the pass began with.
C20_DiscoveryIffEntriesChanged ==
  [][EndsFileLoop =>
       /\ progress'[Len(progress')] = <<0, 0>>
       /\ pc' = "discover" <=> ~EntriesUnchanged]_vars


(* ------------------------------------------------------------------ *)
(* The stations of a discovery pass and the groups of the library (C21)  *)
(* ------------------------------------------------------------------ *)

\* Tracks of every kind, a genre named twice among them, enter and leave
\* the library in batches.
MixedLibraryGrows ==
  /\ db
  /\ Cardinality(StoreRows(musicLibrary)) + BatchSize <= MaxTracks
  /\ \E k \in DOMAIN SmallKinds :
       LET n == KindCount(musicLibrary, SmallKinds[k])
       IN musicLibrary' = storeEntries(musicLibrary,
            [i \in 1..BatchSize |-> KindEntry(SmallKinds[k], n + i)])
  /\ UNCHANGED <<radioStations, clock, call>>

MixedLibraryShrinks ==
  /\ db
  /\ \E k \in DOMAIN SmallKinds :
       LET n == KindCount(musicLibrary, SmallKinds[k])
       IN /\ n >= BatchSize
          /\ musicLibrary' = deleteEntries(musicLibrary,
               {KindEntry(SmallKinds[k], n - i).id : i \in 0..(BatchSize - 1)})
  /\ UNCHANGED <<radioStations, clock, call>>

NextMixedLibrary ==
  /\ \/ InitDB
     \/ MixedLibraryGrows /\ UNCHANGED discoveryFrame
     \/ MixedLibraryShrinks /\ UNCHANGED discoveryFrame
     \/ RunDiscovery /\ UNCHANGED discoveryFrame
  /\ UNCHANGED <<input, searchVars, playbackVars>>

SpecMixedLibrary == Init /\ [][NextMixedLibrary]_vars

\* The keys of an attribute that occur in the library, and the tracks that
\* have a key.
KeysOf(attribute, tracks) == {p[3] : p \in Pushed(attribute, tracks)}
MemberTracks(attribute, key, tracks) ==
  {t \in 1..Len(tracks) : \E p \in Pushed(attribute, <<tracks[t]>>) : p[3] = key}

\* The groups of the library with the station each stands for: its name,
\* its criteria and the number of its member tracks.
SingleGroups(tracks) ==
  UNION {{[name     |-> StationName(a, key),
           criteria |-> <<[attribute |-> a, value |-> key, weight |-> One]>>,
           members  |-> Cardinality(MemberTracks(a, key, tracks))]
          : key \in KeysOf(a, tracks)} : a \in {"genre", "mood", "decade"}}

HybridGroups(tracks) ==
  {[name     |-> g \o <<" ", "(">> \o d \o <<"'", "s", ")">>,
    criteria |-> <<[attribute |-> "genre", value |-> g, weight |-> Point7],
                   [attribute |-> "decade", value |-> d, weight |-> Point7]>>,
    members  |-> Cardinality(MemberTracks("genre", g, tracks)
                               \cap MemberTracks("decade", d, tracks))]
   : g \in KeysOf("genre", tracks), d \in KeysOf("decade", tracks)}

\* C21: after a discovery pass over a library of more than 20 tracks, a
\* genre, mood, decade or genre-and-decade group has a station of its name
\* exactly if it has more than 20 member tracks, and that station has the
\* group's value at weight 1 (0.7 each for genre and decade) as criteria.
C21_StationsAreTheLargeGroups ==
  call.op = "scanForRadioStations" /\ Cardinality(StoreRows(call.library)) > 20 =>
    LET tracks == getAllCachedEntries(call.library)
    IN  \A group \in SingleGroups(tracks) \cup HybridGroups(tracks) :
          IF group.members > 20
          THEN \E s \in StoreRows(call.after) :
                 s.name = group.name /\ s.criteria = group.criteria
          ELSE \A s \in StoreRows(call.after) : s.name /= group.name


(* ------------------------------------------------------------------ *)
(* Failures while a pass creates stations and assigns images (C22)       *)
(* ------------------------------------------------------------------ *)

\* updateCache has stored or deleted entries and calls scanForRadioStations.
ReachDiscovery ==
  /\ pc = "idle"
  /\ db
  /\ pc' = "discover"
  /\ call' = NoCall
  /\ UNCHANGED <<radioStations, createdStations, createdAt>>

\* The creation loop, in which createRadioStationFromTracks fails for some
\* groups (the store rejects the write): the failure is caught and logged,
\* and the group is not among the created stations.
DiscoverWithFailures ==
  /\ pc = "discover"
  /\ LET allTracks == getAllCachedEntries(musicLibrary)
         existingStations == getAllStations(radioStations)
         large == IF Len(allTracks) < MIN_LIBRARY_SIZE THEN <<>> ELSE LargeGroups(allTracks)
     IN  \E failed \in SUBSET {g.key : g \in Range(large)} :
           LET done == SelectSeq(large, LAMBDA g : g.key \notin failed)
           IN  /\ radioStations' = CreateStationsFor(done, existingStations,
                                                     radioStations, clock)
               /\ createdStations' =
                    SortByCount(SelectSeq(done, LAMBDA g :
                      IsNewName(existingStations, StationName(g.attribute, g.key))))
  /\ createdAt' = clock
  /\ pc' = "images"
  /\ UNCHANGED call

\* The user deletes a station while the pass awaits.
DeleteStationDuringPass ==
  /\ pc = "images"
  /\ \E id \in DOMAIN radioStations : radioStations' = deleteStation(radioStations, id)
  /\ UNCHANGED <<pc, createdStations, createdAt, call>>

\* The station object the pass holds for a group it created a station for.
CreatedStation(g, created) ==
  NewStation([name |-> StationName(g.attribute, g.key),
              description |-> StationName(g.attribute, g.key),
              criteria |-> createCriteriaFromGroup(g.attribute, g.key)], created)

\* What assignImagesToStation ends with: the outcome of its updateStation,
\* when it makes one.
assignImagesOutcome(stations, station) ==
  LET k == FindGenreCriterion(station.criteria) IN
  IF k = 0 THEN "ok"
  ELSE LET genre == Str(toLowerCase(station.criteria[k].value)) IN
       IF genre \notin DOMAIN GenreImageCount THEN "ok"
       ELSE IF \A n \in 1..GenreImageCount[genre] :
                 [genre |-> genre, n |-> n] \in AssignedImages(stations)
            THEN "ok"
            ELSE updateStation(stations, station.id, [imagePath |-> genre], 0).outcome

\* assignImagesToStation for the next created station; an error it throws
\* leaves scanForRadioStations and is rethrown by updateCache.
AssignImageToNext ==
  /\ pc = "images"
  /\ createdStations /= <<>>
  /\ LET station == CreatedStation(Head(createdStations), createdAt)
         outcome == assignImagesOutcome(radioStations, station)
     IN  /\ radioStations' = assignImagesToStation(radioStations, station, clock)
         /\ IF outcome = "ok"
            THEN /\ createdStations' = Tail(createdStations)
                 /\ UNCHANGED <<pc, call>>
            ELSE /\ createdStations' = createdStations
                 /\ pc' = "idle"
                 /\ call' = [op |-> "updateCache", outcome |-> outcome]
  /\ UNCHANGED createdAt

\* Every created station has been handled: updateCache returns.
DiscoveryDone ==
  /\ pc = "images"
  /\ createdStations = <<>>
  /\ pc' = "idle"
  /\ call' = [op |-> "updateCache", outcome |-> "ok"]
  /\ UNCHANGED <<radioStations, createdStations, createdAt>>

faultsFrame == <<db, musicLibrary, albumArt, clock, tree, cachedFiles, audioFiles,
                 deletedEntries, newFiles, idx, pending, extractedArt, skipped, progress>>

NextFailures ==
  /\ \/ InitDB
     \/ pc = "idle" /\ LibraryGrows /\ UNCHANGED discoveryFrame
     \/ ReachDiscovery /\ UNCHANGED faultsFrame
     \/ DiscoverWithFailures /\ UNCHANGED faultsFrame
     \/ DeleteStationDuringPass /\ UNCHANGED faultsFrame
     \/ AssignImageToNext /\ UNCHANGED faultsFrame
     \/ DiscoveryDone /\ UNCHANGED faultsFrame
  /\ UNCHANGED <<input, searchVars, playbackVars>>

SpecFailures == Init /\ [][NextFailures]_vars

\* C22: a failure while one candidate station is created or gets its image
\* does not end the pass: updateCache returns without an error, with every
\* created station handled.
C22_CandidateFailureIsContained ==
  pc = "idle" /\ call.op = "updateCache" =>
    call.outcome = "ok" /\ createdStations = <<>>


(* ------------------------------------------------------------------ *)
(* String and genre matching (C23)                                       *)
(* ------------------------------------------------------------------ *)

\* Track and criterion values: empty, equal up to case, contained in one
\* another with ratios below, at and above the caps, and unrelated.
MatchValues ==
  {Chars(str) : str \in {"", "r", "R", "ro", "rock", "Rock", "rocks", "rocksy", "pop"}}

\* Genre fields of one and of two genres.
MatchGenreFields ==
  MatchValues \cup {a \o <<",", " ">> \o b : a, b \in MatchValues}

InitMatch ==
  /\ InitCache
  /\ InitSearch
  /\ InitPlayback
  /\ call = NoCall
  /\ input \in [trackValue : MatchGenreFields, criterionValue : MatchValues]

MatchStringCall ==
  /\ call = NoCall
  /\ input.trackValue \in MatchValues
  /\ call' = [op |-> "matchString", trackValue |-> input.trackValue,
               criterionValue |-> input.criterionValue,
               result |-> matchString(input.trackValue, input.criterionValue)]
  /\ UNCHANGED <<cacheVars, input, searchVars, playbackVars>>

\* calculateAttributeMatch for a genre criterion.
GenreMatchCall ==
  /\ call = NoCall
  /\ call' = [op |-> "calculateAttributeMatch", trackValue |-> input.trackValue,
               criterionValue |-> input.criterionValue,
               result |-> calculateAttributeMatch(
                            [TrackUntagged EXCEPT !.genre = input.trackValue],
                            [attribute |-> "genre", value |-> input.criterionValue,
                             weight |-> One])]
  /\ UNCHANGED <<cacheVars, input, searchVars, playbackVars>>

NextMatch == MatchStringCall \/ GenreMatchCall

SpecMatch == InitMatch /\ [][NextMatch]_vars

EqualIgnoringCase(a, b) ==
  Len(a) = Len(b) /\ \A i \in 1..Len(a) : LowerChar(a[i]) = LowerChar(b[i])

\* part occurs in whole, case ignored, and is not all of it.
ProperPartOf(part, whole) ==
  /\ Len(part) < Len(whole)
  /\ \E i \in 1..Len(whole) :
       i + Len(part) - 1 <= Len(whole)
         /\ EqualIgnoringCase(part, SubSeq(whole, i, i + Len(part) - 1))

\* min(cap, a / b) for the cap capNum / capDen.
CappedRatio(a, b, cap, capNum, capDen) ==
  IF a * capDen >= b * capNum THEN cap ELSE FDiv(FromInt(a), FromInt(b))

ExpectedMatch(track, criterion) ==
  IF track = <<>> \/ criterion = <<>> THEN Zero
  ELSE IF EqualIgnoringCase(track, criterion) THEN One
  ELSE IF ProperPartOf(criterion, track)
    THEN CappedRatio(Len(criterion), Len(track), Point8, 4, 5)
  ELSE IF ProperPartOf(track, criterion)
    THEN CappedRatio(Len(track), Len(criterion), Half, 1, 2)
  ELSE Zero

\* C23: matchString is 0 for an empty string, 1 for equality up to case,
\* min(0.8, len(criterion)/len(track)) when the criterion is a proper part
\* of the track value, min(0.5, len(track)/len(criterion)) when the track
\* value is a proper part of the criterion, and 0 otherwise; it lies in
\* [0, 1] and is 1 only for equality up to case; the genre match is the
\* largest matchString over the comma-split, trimmed genres of the track.
C23_MatchStringByCases ==
  /\ call.op = "matchString" =>
       /\ call.result = ExpectedMatch(call.trackValue, call.criterionValue)
       /\ ~FLess(call.result, Zero) /\ ~FLess(One, call.result)
       /\ call.result = One => EqualIgnoringCase(call.trackValue, call.criterionValue)
  /\ call.op = "calculateAttributeMatch" =>
       LET parts == Split(call.trackValue, ",")
           scores == {ExpectedMatch(Trim(parts[k]), call.criterionValue) :
                        k \in 1..Len(parts)}
       IN  /\ call.result \in scores
           /\ \A score \in scores : ~FLess(call.result, score)

\* Both caps have applied: a criterion that is more than 0.8 of the track
\* value it is part of, and a two-genre field whose better genre is more
\* than half of the criterion it is part of.
C23_Witness ==
  \/ /\ call.op = "matchString"
     /\ ProperPartOf(call.criterionValue, call.trackValue)
     /\ Len(call.criterionValue) * 5 > Len(call.trackValue) * 4
     /\ call.result = Point8
  \/ /\ call.op = "calculateAttributeMatch"
     /\ Len(Split(call.trackValue, ",")) = 2
     /\ call.result = Half


(* ------------------------------------------------------------------ *)
(* Selection of the tracks of a station (C24)                            *)
(* ------------------------------------------------------------------ *)

\* (A selection that leaves the scored tracks in library order.)
selectTracksForStation_Unsorted(library, station, limit) ==
  LET allTracks == getAllCachedEntries(library)
      scoredTracks == [k \in 1..Len(allTracks) |->
                         [track |-> allTracks[k],
                          score |-> calculateTrackScore(allTracks[k], station.criteria)]]
  IN  SubSeq(scoredTracks, 1, IF limit < Len(scoredTracks) THEN limit ELSE Len(scoredTracks))

\* scoredTracks.sort((a, b) => b.score - a.score): a stable sort, the
\* higher score first.
RECURSIVE InsertByScore(_, _)
InsertByScore(sorted, scored) ==
  IF sorted = <<>> THEN <<scored>>
  ELSE IF FLess(Head(sorted).score, scored.score) THEN <<scored>> \o sorted
  ELSE <<Head(sorted)>> \o InsertByScore(Tail(sorted), scored)
RECURSIVE SortByScore(_)
SortByScore(scoredTracks) ==
  IF scoredTracks = <<>> THEN <<>>
  ELSE InsertByScore(SortByScore(SubSeq(scoredTracks, 1, Len(scoredTracks) - 1)),
                     scoredTracks[Len(scoredTracks)])

\* RadioStationService.selectTracksForStation, for a limit of 0 or more.
selectTracksForStation(library, station, limit) ==
  LET allTracks == getAllCachedEntries(library)
      scoredTracks == [k \in 1..Len(allTracks) |->
                         [track |-> allTracks[k],
                          score |-> calculateTrackScore(allTracks[k], station.criteria)]]
      sorted == SortByScore(scoredTracks)
  IN  IF Len(allTracks) = 0 THEN <<>>
      ELSE SubSeq(sorted, 1, IF limit < Len(sorted) THEN limit ELSE Len(sorted))

\* The greatest limit of a selection.
MaxLimit == 3

\* The files of the library, with their genres: two that match a rock
\* criterion exactly, one that matches it in part, one that does not.
SelectFiles ==
  {<<"a.mp3", "Rock">>, <<"b.mp3", "Jazz">>, <<"c.mp3", "Pop, rock">>, <<"d.mp3", "Rocks">>}

SelectEntry(file) ==
  MakeEntry(Chars(file[1]), [TagsNone EXCEPT !.genre = <<Chars(file[2])>>, !.year = 1979])

SelectCriteria ==
  {<<>>, <<Criterion("genre", "rock", One)>>,
   <<Criterion("genre", "jazz", One), Criterion("decade", "1970", Point3)>>}

selectFrame == <<albumArt, tree, passVars>>

\* A pass has stored the entry of a file.
FileCached ==
  /\ db
  /\ \E file \in SelectFiles :
       /\ SelectEntry(file).id \notin DOMAIN musicLibrary
       /\ musicLibrary' = storeEntries(musicLibrary, <<SelectEntry(file)>>)
  /\ UNCHANGED <<db, radioStations, clock, call>>

\* A station is created.
StationCreated ==
  /\ db
  /\ radioStations = EmptyStore
  /\ \E criteria \in SelectCriteria :
       radioStations' = createStation(radioStations,
          [name |-> NameJazz, description |-> <<>>, criteria |-> criteria], clock)
  /\ UNCHANGED <<db, musicLibrary, clock, call>>

SelectTracksCall ==
  /\ db
  /\ \E id \in DOMAIN radioStations, limit \in 0..MaxLimit :
       call' = [op |-> "selectTracksForStation", station |-> radioStations[id],
                limit |-> limit, library |-> musicLibrary, stations |-> radioStations,
                result |-> selectTracksForStation(musicLibrary, radioStations[id], limit)]
  /\ UNCHANGED <<db, musicLibrary, radioStations, clock>>

NextSelect ==
  /\ \/ InitDB
     \/ FileCached /\ UNCHANGED selectFrame
     \/ StationCreated /\ UNCHANGED selectFrame
     \/ SelectTracksCall /\ UNCHANGED selectFrame
  /\ UNCHANGED <<input, searchVars, playbackVars>>

SpecSelect == Init /\ [][NextSelect]_vars

\* The place of a track in the library order.
PlaceOf(track, allTracks) == CHOOSE k \in 1..Len(allTracks) : allTracks[k] = track

\* a is ranked before b: the higher score, or the same score and the
\* earlier place in the library.
RankedBefore(a, b, allTracks) ==
  \/ FLess(b.score, a.score)
  \/ a.score = b.score /\ PlaceOf(a.track, allTracks) < PlaceOf(b.track, allTracks)

\* What a selection returns.
SelectionIsRankedPrefix ==
  call.op = "selectTracksForStation" =>
    LET allTracks == getAllCachedEntries(call.library)
        result == call.result
        chosen == {result[k].track : k \in 1..Len(result)}
    IN  /\ Len(result) = IF call.limit < Len(allTracks) THEN call.limit ELSE Len(allTracks)
        /\ \A k \in 1..Len(result) :
             /\ result[k].track \in Range(allTracks)
             /\ result[k].score = calculateTrackScore(result[k].track, call.station.criteria)
        /\ \A j, k \in 1..Len(result) : j < k => RankedBefore(result[j], result[k], allTracks)
        /\ \A k \in 1..Len(result) : \A track \in Range(allTracks) \ chosen :
             RankedBefore(result[k],
                          [track |-> track,
                           score |-> calculateTrackScore(track, call.station.criteria)],
                          allTracks)

\* A step that is a selection leaves the stores as they are.
SelectionWritesNothing ==
  call' /= call /\ call'.op = "selectTracksForStation" =>
    UNCHANGED <<musicLibrary, albumArt, radioStations>>

\* C24: selectTracksForStation returns cached tracks with their scores
\* against the station's criteria, higher scores first and equal scores in
\* library order, the best min(limit, library size) of them; nothing for an
\* empty library; and it writes to neither store.
C24_SelectionIsRankedPrefix ==
  []SelectionIsRankedPrefix /\ [][SelectionWritesNothing]_vars

\* A selection has cut off a track; its result holds two tracks of equal
\* score, and a track of higher score that stands later in the library
\* than a track of lower score it is returned before.
C24_Witness ==
  /\ call.op = "selectTracksForStation"
  /\ Len(call.result) = call.limit
  /\ call.limit < Cardinality(StoreRows(call.library))
  /\ \E j, k \in 1..Len(call.result) :
       j < k /\ call.result[j].score = call.result[k].score
  /\ \E j, k \in 1..Len(call.result) :
       /\ j < k
       /\ FLess(call.result[k].score, call.result[j].score)
       /\ PlaceOf(call.result[k].track, getAllCachedEntries(call.library))
            < PlaceOf(call.result[j].track, getAllCachedEntries(call.library))


(* ------------------------------------------------------------------ *)
(* What updateStation stores (C25)                                       *)
(* ------------------------------------------------------------------ *)

\* The station stored under the id of the call is the one that was there
\* with the fields of the patch put in and updatedAt set to the time of the
\* call.
StoredIsMerged ==
  LET existing == call'.before[call'.id]
      updates  == call'.updates
      stored   == getStationById(radioStations', call'.id)
  IN  /\ stored /= Null
      /\ \A field \in DOMAIN updates :
           field \in DOMAIN stored /\ stored[field] = updates[field]
      /\ \A field \in DOMAIN existing \ (DOMAIN updates \cup {"updatedAt"}) :
           field \in DOMAIN stored /\ stored[field] = existing[field]
      /\ stored.updatedAt = clock

\* C25: updateStation on an existing id stores the existing record with
\* every field of the patch replaced by the patch's value and updatedAt
\* bumped, id, createdAt and the fields the patch does not name unchanged,
\* and getStationById returns that record.
C25_UpdateMergesPatch ==
  [][call' /= call /\ call'.op = "updateStation" /\ call'.outcome = "ok" =>
       StoredIsMerged]_vars


(* ------------------------------------------------------------------ *)
(* Passes in which a store operation or discovery fails (C26)            *)
(* ------------------------------------------------------------------ *)

Failed == [op |-> "updateCache", outcome |-> "error"]

\* deleteEntries rejects: the error reaches the outer catch of updateCache,
\* which rethrows it.
DeleteEntriesFails ==
  /\ pc = "delete"
  /\ Len(deletedEntries) > 0
  /\ pc' = "idle"
  /\ call' = Failed
  /\ UNCHANGED <<storeVars, tree, cachedFiles, audioFiles, deletedEntries, newFiles, idx,
                 pending, extractedArt, skipped, createdStations, createdAt, progress>>

\* storeEntries rejects: the catch of the loop logs the error and the loop
\* goes on with the next file.
StoreEntriesFails ==
  /\ pc = "store"
  /\ skipped' = skipped \cup {newFiles[idx]}
  /\ AfterFile(idx, progress)
  /\ pending' = NoEntry
  /\ extractedArt' = "none"
  /\ UNCHANGED <<storeVars, tree, cachedFiles, audioFiles, deletedEntries, newFiles,
                 createdStations, createdAt>>

\* storeAlbumArt rejects: likewise, with the entry stored and no report.
StoreAlbumArtFails ==
  /\ pc = "art"
  /\ AfterFile(idx, progress)
  /\ pending' = NoEntry
  /\ extractedArt' = "none"
  /\ UNCHANGED <<storeVars, tree, cachedFiles, audioFiles, deletedEntries, newFiles,
                 skipped, createdStations, createdAt>>

\* scanForRadioStations rejects: updateCache rethrows.
ScanForRadioStationsFails ==
  /\ pc \in {"discover", "images"}
  /\ pc' = "idle"
  /\ createdStations' = <<>>
  /\ call' = Failed
  /\ UNCHANGED <<storeVars, tree, cachedFiles, audioFiles, deletedEntries, newFiles, idx,
                 pending, extractedArt, skipped, createdAt, progress>>

NextStoreErrors ==
  /\ \/ InitDB
     \/ FsChange
     \/ UpdateCacheNoDb
     \/ UpdateCacheStep
     \/ DeleteEntriesFails
     \/ StoreEntriesFails
     \/ StoreAlbumArtFails
     \/ ScanForRadioStationsFails
  /\ UNCHANGED <<input, searchVars, playbackVars>>

SpecStoreErrors == Init /\ [][NextStoreErrors]_vars

\* C26: when updateCache has returned or thrown after a progress report
\* with a total above 0, its last report is (0, 0).
C26_PassEndsWithReset ==
  /\ pc = "idle"
  /\ call.op = "updateCache"
  /\ \E k \in 1..Len(progress) : progress[k][2] > 0
  => progress[Len(progress)] = <<0, 0>>


(* ------------------------------------------------------------------ *)
(* The scores of a discovered station's group (C27)                      *)
(* ------------------------------------------------------------------ *)

\* Files without a year, and files whose genre holds a vertical bar.
TagsYearless == [TagsFull EXCEPT !.year = 0]
TagsBar ==
  [title |-> <<"T">>, artist |-> <<"E">>, album |-> <<"O">>,
   genre |-> << <<"A","|","B">> >>, year |-> 1990, mood |-> <<>>]

GroupKinds ==
  << [letter |-> "j", tags |-> TagsJazz], [letter |-> "y", tags |-> TagsYearless],
     [letter |-> "b", tags |-> TagsBar] >>

GroupLibraryGrows ==
  /\ db
  /\ Cardinality(StoreRows(musicLibrary)) + BatchSize <= MaxTracks
  /\ \E k \in DOMAIN GroupKinds :
       LET n == KindCount(musicLibrary, GroupKinds[k])
       IN musicLibrary' = storeEntries(musicLibrary,
            [i \in 1..BatchSize |-> KindEntry(GroupKinds[k], n + i)])
  /\ UNCHANGED <<radioStations, clock, call>>

NextGroupScores ==
  /\ \/ InitDB
     \/ Tick
     \/ GroupLibraryGrows /\ UNCHANGED discoveryFrame
     \/ RunDiscovery /\ UNCHANGED discoveryFrame
  /\ UNCHANGED <<input, searchVars, playbackVars>>

SpecGroupScores == Init /\ [][NextGroupScores]_vars

\* C27: for every station a discovery pass created, each track of the
\* group it was created for scores exactly 1 against its criteria, and
\* every other cached track scores less than 1.
C27_GroupScoresOneOthersLess ==
  call.op = "scanForRadioStations" =>
    LET tracks == getAllCachedEntries(call.library)
    IN  \A g \in Range(CreatedGroups(tracks, getAllStations(call.before))) :
          LET criteria == createCriteriaFromGroup(g.attribute, g.key)
              members  == MemberTracks(g.attribute, g.key, tracks)
          IN  \A t \in 1..Len(tracks) :
                IF t \in members
                THEN calculateTrackScore(tracks[t], criteria) = One
                ELSE FLess(calculateTrackScore(tracks[t], criteria), One)

(* ------------------------------------------------------------------ *)
(* Playback: current track, history and selected station               *)
(* ------------------------------------------------------------------ *)

\* The tracks a caller can hand to the playback service, by id.
Tracks == {"a", "b", "c"}

\* The stored station that playStation is called with.
LibraryStation == [name |-> "jazz", isTemporary |-> FALSE]

\* createTemporaryStationFromTrack: the station created from a track; its name is
\* made of the track's artist and title.
TempStation(track) == [name |-> track, isTemporary |-> TRUE]

\* The longest playbackHistory and the most asynchronous calls of a modelled run.
MaxHistory == 3
MaxCalls == 2

\* audioElement.currentTime above which playPrevious restarts the current track.
RestartAfter == 5

\* playInternal up to its first await: the track becomes the current one; the audio
\* element then loads it and plays it from the start.
playInternal(track) ==
  /\ currentTrack' = track
  /\ currentTime' = 0

play_AlwaysPushes(track) ==
  /\ playbackHistory' = IF currentTrack /= NoTrack
                          THEN Append(playbackHistory, currentTrack)
                          ELSE playbackHistory
  /\ playInternal(track)

\* play up to its first await: the current track is pushed on the history unless the
\* new track has its id.
play(track) ==
  /\ playbackHistory' = IF currentTrack /= NoTrack /\ currentTrack /= track
                          THEN Append(playbackHistory, currentTrack)
                          ELSE playbackHistory
  /\ playInternal(track)

Settle(k, outcome) == [calls EXCEPT ![k].pc = outcome]

InFlight(k) == calls[k].pc \notin {"done", "failed"}

NewCall(op, track, station, at) ==
  [op |-> op, track |-> track, station |-> station, pc |-> at]

\* play(track) called by a component.
Play ==
  /\ Len(playbackHistory) < MaxHistory
  /\ \E track \in Tracks :
       /\ play(track)
       /\ call' = [op |-> "play", track |-> track]
  /\ UNCHANGED <<selectedStation, nextTrack, calls>>

\* The audio element plays on.
TimeUpdate ==
  /\ currentTrack /= NoTrack
  /\ \E time \in {RestartAfter, RestartAfter + 1} :
       /\ time > currentTime
       /\ currentTime' = time
  /\ UNCHANGED <<currentTrack, playbackHistory, selectedStation, nextTrack, calls, call>>

\* playStation up to its first await; without a lead track it asks for the next
\* track of the station.
PlayStation ==
  /\ Len(calls) < MaxCalls
  /\ \E leadTrack \in Tracks \cup {NoTrack} :
       calls' = Append(calls, NewCall("playStation", leadTrack, LibraryStation, "select"))
  /\ call' = [op |-> "playStation"]
  /\ UNCHANGED <<currentTrack, playbackHistory, selectedStation, nextTrack, currentTime>>

\* playStation after its awaits: with a track, the station is selected and the
\* track played; with none it returns.
PlayStationResumes(k) ==
  /\ calls[k].op = "playStation"
  /\ InFlight(k)
  /\ Len(playbackHistory) < MaxHistory
  /\ \E track \in IF calls[k].track = NoTrack THEN Tracks \cup {NoTrack}
                                               ELSE {calls[k].track} :
       IF track = NoTrack
         THEN UNCHANGED <<currentTrack, playbackHistory, selectedStation, currentTime>>
         ELSE /\ selectedStation' = calls[k].station
              /\ play(track)
  /\ calls' = Settle(k, "done")
  /\ call' = [op |-> "playStation"]
  /\ UNCHANGED nextTrack

\* An await of a call rejects; the call throws the error on.
CallFails(k) ==
  /\ InFlight(k)
  /\ calls' = Settle(k, "failed")
  /\ call' = [op |-> calls[k].op]
  /\ UNCHANGED <<currentTrack, playbackHistory, selectedStation, nextTrack, currentTime>>

\* playNextTrack up to its first await; without a selected station it does nothing.
PlayNextTrack ==
  /\ Len(calls) < MaxCalls
  /\ selectedStation /= NoStation
  /\ calls' = Append(calls, NewCall("playNextTrack", NoTrack, selectedStation, "select"))
  /\ call' = [op |-> "playNextTrack"]
  /\ UNCHANGED <<currentTrack, playbackHistory, selectedStation, nextTrack, currentTime>>

\* playNextTrack after its awaits: a track that was found becomes nextTrack and is
\* played.
PlayNextTrackResumes(k) ==
  /\ calls[k].op = "playNextTrack"
  /\ InFlight(k)
  /\ Len(playbackHistory) < MaxHistory
  /\ \E track \in Tracks \cup {NoTrack} :
       IF track = NoTrack
         THEN UNCHANGED <<currentTrack, playbackHistory, nextTrack, currentTime>>
         ELSE /\ nextTrack' = track
              /\ play(track)
  /\ calls' = Settle(k, "done")
  /\ call' = [op |-> "playNextTrack"]
  /\ UNCHANGED selectedStation

\* playPrevious: after RestartAfter seconds the current track restarts; before, the
\* last track of the history, if any, is popped and played.
PlayPrevious ==
  /\ currentTrack /= NoTrack
  /\ IF currentTime > RestartAfter
       THEN /\ currentTime' = 0
            /\ UNCHANGED <<currentTrack, playbackHistory>>
       ELSE IF playbackHistory /= <<>>
         THEN /\ playbackHistory' = SubSeq(playbackHistory, 1, Len(playbackHistory) - 1)
              /\ playInternal(playbackHistory[Len(playbackHistory)])
         ELSE UNCHANGED <<currentTrack, playbackHistory, currentTime>>
  /\ call' = [op |-> "playPrevious", currentTrack |-> currentTrack,
               currentTime |-> currentTime, playbackHistory |-> playbackHistory]
  /\ UNCHANGED <<selectedStation, nextTrack, calls>>

ClearHistory ==
  /\ playbackHistory' = <<>>
  /\ call' = [op |-> "clearHistory"]
  /\ UNCHANGED <<currentTrack, selectedStation, nextTrack, currentTime, calls>>

\* stop: the audio element is unloaded and the four fields are cleared.
Stop ==
  /\ Len(calls) < MaxCalls
  /\ currentTrack' = NoTrack
  /\ playbackHistory' = <<>>
  /\ selectedStation' = NoStation
  /\ nextTrack' = NoTrack
  /\ currentTime' = 0
  /\ calls' = Append(calls, NewCall("stop", NoTrack, NoStation, "done"))
  /\ call' = [op |-> "stop"]

NextPlayback ==
  /\ \/ Play
     \/ TimeUpdate
     \/ PlayStation
     \/ \E k \in DOMAIN calls : PlayStationResumes(k)
     \/ \E k \in DOMAIN calls : CallFails(k)
     \/ PlayNextTrack
     \/ \E k \in DOMAIN calls : PlayNextTrackResumes(k)
     \/ PlayPrevious
     \/ ClearHistory
     \/ Stop
  /\ UNCHANGED <<cacheVars, input, searchVars>>

SpecPlayback == Init /\ [][NextPlayback]_vars

\* ---- C28 ----

LastOf(history) == history[Len(history)]

\* The history never ends with the current track and never holds one id twice in
\* a row.
HistoryAlternates ==
  /\ playbackHistory /= <<>> => LastOf(playbackHistory) /= currentTrack
  /\ \A i \in 1..(Len(playbackHistory) - 1) : playbackHistory[i] /= playbackHistory[i + 1]

\* playPrevious called in the first RestartAfter seconds with a history has switched
\* to another track.
PreviousSwitchesTrack ==
  ( /\ call.op = "playPrevious"
    /\ call.currentTime <= RestartAfter
    /\ call.playbackHistory /= <<>> )
  => /\ currentTrack = LastOf(call.playbackHistory)
     /\ currentTrack /= call.currentTrack

\* stop leaves the four fields empty.
StoppedIsEmpty ==
  call.op = "stop"
  => /\ currentTrack = NoTrack
     /\ playbackHistory = <<>>
     /\ selectedStation = NoStation
     /\ nextTrack = NoTrack

\* C28: in every state reached by play, playStation, playNextTrack, playPrevious,
\* clearHistory and stop, the last history entry differs from the current track
\* and adjacent history entries differ; playPrevious in the first 5 seconds with
\* a non-empty history switches to another track; after stop the current track,
\* the history, the selected station and the next track are empty.
C28_HistoryNeverRepeatsCurrent ==
  /\ HistoryAlternates
  /\ PreviousSwitchesTrack
  /\ StoppedIsEmpty

\* A playPrevious at exactly RestartAfter seconds has popped a history of two.
C28_Witness ==
  /\ call.op = "playPrevious"
  /\ call.currentTime = RestartAfter
  /\ Len(call.playbackHistory) = 2
  /\ Len(playbackHistory) = 1
  /\ selectedStation = LibraryStation

(* ------------------------------------------------------------------ *)
(* Playback: overlapping playSpecificTrack calls and stop               *)
(* ------------------------------------------------------------------ *)

\* The awaits of createTemporaryStationFromTrack, in order.
StageOf(at) ==
  CASE at = "createStation" -> 0
    [] at = "updateStationFromTracks" -> 1
    [] OTHER -> 2

\* The station store serves the requests of overlapping calls in the order they
\* were made: a call leaves an await only after the earlier calls have left it.
EarlierCallsAhead(k) ==
  \A j \in 1..(k - 1) :
    calls[j].op = "playSpecificTrack" => StageOf(calls[j].pc) > StageOf(calls[k].pc)

\* playSpecificTrack up to its first await: play(track) is called and not awaited,
\* then createTemporaryStationFromTrack awaits createStation.
PlaySpecificTrack ==
  /\ Len(calls) < MaxCalls
  /\ Len(playbackHistory) < MaxHistory
  /\ \E track \in Tracks :
       /\ play(track)
       /\ calls' = Append(calls, NewCall("playSpecificTrack", track, NoStation, "createStation"))
       /\ call' = [op |-> "playSpecificTrack", track |-> track]
  /\ UNCHANGED <<selectedStation, nextTrack>>

\* createStation resolves; createTemporaryStationFromTrack awaits
\* updateStationFromTracks.
CreateStationReturns(k) ==
  /\ calls[k].op = "playSpecificTrack"
  /\ calls[k].pc = "createStation"
  /\ EarlierCallsAhead(k)
  /\ calls' = [calls EXCEPT ![k].pc = "updateStationFromTracks"]
  /\ call' = [op |-> "createStation", track |-> calls[k].track]
  /\ UNCHANGED <<currentTrack, playbackHistory, selectedStation, nextTrack, currentTime>>

\* updateStationFromTracks resolves; the new station is made the selected one.
UpdateStationFromTracksReturns(k) ==
  /\ calls[k].op = "playSpecificTrack"
  /\ calls[k].pc = "updateStationFromTracks"
  /\ EarlierCallsAhead(k)
  /\ selectedStation' = TempStation(calls[k].track)
  /\ calls' = Settle(k, "done")
  /\ call' = [op |-> "playSpecificTrack", track |-> calls[k].track]
  /\ UNCHANGED <<currentTrack, playbackHistory, nextTrack, currentTime>>

NextOverlap ==
  /\ \/ PlaySpecificTrack
     \/ \E k \in DOMAIN calls : CreateStationReturns(k)
     \/ \E k \in DOMAIN calls : UpdateStationFromTracksReturns(k)
     \/ \E k \in DOMAIN calls : CallFails(k)
     \/ TimeUpdate
     \/ Stop
  /\ UNCHANGED <<cacheVars, input, searchVars>>

SpecOverlap == Init /\ [][NextOverlap]_vars

\* ---- C29 ----

AllSettled == \A k \in DOMAIN calls : ~InFlight(k)

\* C29: once overlapping playSpecificTrack calls and stop have all settled, the
\* selected station is the temporary station of the current track, or none if
\* stop was the last request; an earlier call that finishes late does not
\* override what a later request selected.
C29_LatestRequestDecidesStation ==
  (calls /= <<>> /\ AllSettled)
  => IF LastOf(calls).op = "stop"
       THEN selectedStation = NoStation
       ELSE LastOf(calls).pc = "done" => selectedStation = TempStation(currentTrack)

(* ------------------------------------------------------------------ *)
(* Deletion and skipped subtrees (C30)                                  *)
(* ------------------------------------------------------------------ *)

\* An audio file of this filePath exists somewhere under the directory root.
FileExists(filePath) == \E p \in tree : IsAudioName(p.name) /\ p.name = filePath

\* C30: a pass deletes a cached entry only if no audio file with its filePath
\* exists anywhere under the directory root at the time of the scan; the entries
\* of the files of a subdirectory whose traversal failed are not deleted.
C30_DeletesOnlyEntriesWithoutFile ==
  [][\A id \in DOMAIN musicLibrary :
       id \notin DOMAIN musicLibrary' => ~FileExists(musicLibrary[id].filePath)]_vars

============================================================================
